---- MODULE Spec2Model ----
(***************************************************************************)
(* A model of the modifier layout code of VexFlow: the category format     *)
(* functions (Ornament, ChordSymbol, Bend, Stroke, Parenthesis) that       *)
(* arrange the modifiers of one note inside a ModifierContextState, the    *)
(* nesting offset of Tuplet, the notes and the rendering loop of StaveTie, *)
(* the registry, the metric lookups and the web fonts of Font, the class   *)
(* labels of Element, and the justification engine.                        *)
(*                                                                         *)
(* Lengths are pixels.  The code divides some of them by two               *)
(* (width / 2) or by the stave line distance (height / 10); the widths     *)
(* and heights drawn below are even numbers and multiples of ten, so the   *)
(* integer division of the model is the exact division of the code.        *)
(***************************************************************************)
EXTENDS Integers, Sequences, FiniteSets, TLC

VARIABLES
  version,      \* which of the two versions of ornament.ts the build holds
  category,     \* the category of the modifiers in `list`
  listDefined,  \* FALSE: the format function is handed `undefined`
  list,         \* the modifiers of one category attached to the note
  state,        \* the ModifierContextState of the note
  state0,       \* the values `state` held when the note was set up
  list0,        \* ghost: `list` as it was before the last format call
  pre,          \* ghost: `state` as it was before the last format call
  first,        \* ghost: `list` as the first format call left it
  runs,         \* ghost: the number of format calls made on `list`
  last,         \* ghost: the outcome of the last format call
  notes,        \* Tuplet: the tuplet stack of every note
  tuplets,      \* Tuplet: the tuplets constructed so far
  tq,           \* Tuplet: the last call made on a tuplet and its result
  tie,          \* StaveTie: the notes structure stored by setNotes, and the style
  ctx,          \* StaveTie: the rendering context: set or not, open groups, saved states
  tr,           \* StaveTie: the last call made on the tie and its outcome
  fonts,        \* Font: the registry `Fonts` of Font objects, by font name
  fq,           \* Font: the last call made on the registry or on a font, and its result
  web,          \* Font: the FontFace loads started by loadWebFonts, and its promise
  el,           \* Element: the class attribute of an element, and its registry
  eq,           \* Element: the last class call made on the element and its effect
  jq,           \* Formatter: the last justify call and its report
  dq,           \* Tables: the sanitizeDuration calls made so far and their outcomes
  td,           \* TextDynamics: the note, its text and its last preFormat call
  dw            \* Bend, Ornament: a formatted annotation and its draw calls so far

layoutVars == <<version, category, listDefined, list, state, state0, list0, pre, first, runs, last>>
tupletVars == <<notes, tuplets, tq>>
tieVars == <<tie, ctx, tr>>
fontVars == <<fonts, fq, web>>
elementVars == <<el, eq>>
justifyVars == <<jq>>
durationVars == <<dq>>
dynamicsVars == <<td>>
drawVars == <<dw>>
vars == <<version, category, listDefined, list, state, state0, list0, pre, first, runs, last,
          notes, tuplets, tq, tie, ctx, tr, fonts, fq, web, el, eq, jq, dq, td, dw>>

----------------------------------------------------------------------------
(* Bounds of the model *)

\* the longest modifier list handed to a format function
MaxLen == 2
\* the number of format calls made on one list
MaxRuns == 2

----------------------------------------------------------------------------
(* Helpers *)

Max(a, b) == IF a > b THEN a ELSE b
Min(a, b) == IF a < b THEN a ELSE b

\* the sequences over S of length at most n
SeqUpTo(S, n) == UNION {[1..k -> S] : k \in 0..n}

\* NoteHead.minPadding of the metrics table
minPadding == 2
\* Tables.STAVE_LINE_DISTANCE
STAVE_LINE_DISTANCE == 10

\* the result of a format call that returned or threw
Returned(l, s, r) == [list |-> l, state |-> s, ret |-> r, err |-> "none"]
Thrown(l, s, e) == [list |-> l, state |-> s, ret |-> "throw", err |-> e]

\* Modifier.setXShift: a LEFT modifier is shifted to the left
ModifierSetXShift(position, x) == IF position = "LEFT" THEN 0 - x ELSE x

----------------------------------------------------------------------------
(* Ornament (both versions of ornament.ts) *)

ornamentRelease == {"doit", "fall", "fallLong", "doitLong", "jazzTurn", "smear", "flip"}
ornamentAttack == {"scoop"}
ornamentLeft == {"scoop"}
ornamentRight == {"doit", "fall", "fallLong", "doitLong"}
ornamentArticulation == {"bend", "plungerClosed", "plungerOpen"}

\* new Ornament(type) attached (or not) to a note: the position follows from
\* the type; width and height are the measured text; line is the line
\* number of the note the ornament is attached to
Ornament(type, w, h, note, line) ==
  [type |-> type,
   position |-> IF type \in ornamentLeft THEN "LEFT"
                ELSE IF type \in ornamentRight THEN "RIGHT" ELSE "ABOVE",
   width |-> w, height |-> h, note |-> note, line |-> line,
   xShift |-> 0, textLine |-> 0, assigned |-> FALSE]

\* the ornaments a list is drawn from
OrnamentInputs ==
       {Ornament("mordent", 6, 10, "StaveNote", 4)}
  \cup {[Ornament("mordent", 4, 10, "StaveNote", 4) EXCEPT !.position = "BELOW"]}
  \cup {Ornament("doit", w, 10, n, 4) : w \in {4, 6}, n \in {"none", "StaveNote"}}
  \cup {Ornament("scoop", w, 10, "StaveNote", 4) : w \in {4, 6}}
  \cup {Ornament("bend", 0, 0, "none", 0)}
  \cup {Ornament("bend", 0, 0, "StaveNote", l) : l \in {2, 4}}
  \cup {Ornament("bend", 6, 20, "StaveNote", l) : l \in {2, 4}}

\* OrnamentStep with the reserves grown by the width alone
OrnamentStepNoPadding(acc, o) ==
  IF o.position = "RIGHT" THEN
    [acc EXCEPT !.out = Append(@, [o EXCEPT !.assigned = TRUE, !.xShift = @ + (acc.rightShift + 2)]),
                !.rightShift = @ + o.width]
  ELSE IF o.position = "LEFT" THEN
    [acc EXCEPT !.out = Append(@, [o EXCEPT !.assigned = TRUE, !.xShift = @ - (acc.leftShift + o.width + 2)]),
                !.leftShift = @ + o.width]
  ELSE IF o.position = "ABOVE" THEN
    [acc EXCEPT !.out = Append(@, [o EXCEPT !.assigned = TRUE, !.textLine = acc.topTextLine]),
                !.width = Max(o.width, @),
                !.topTextLine = @ + 2]
  ELSE
    [acc EXCEPT !.out = Append(@, [o EXCEPT !.assigned = TRUE, !.textLine = acc.textLine]),
                !.width = Max(o.width, @),
                !.textLine = @ + 2]

\* one pass of the loop of the first version of Ornament.format
OrnamentStep(acc, o) ==
  IF o.position = "RIGHT" THEN
    [acc EXCEPT !.out = Append(@, [o EXCEPT !.assigned = TRUE, !.xShift = @ + (acc.rightShift + 2)]),
                !.rightShift = @ + o.width + minPadding]
  ELSE IF o.position = "LEFT" THEN
    [acc EXCEPT !.out = Append(@, [o EXCEPT !.assigned = TRUE, !.xShift = @ - (acc.leftShift + o.width + 2)]),
                !.leftShift = @ + o.width + minPadding]
  ELSE IF o.position = "ABOVE" THEN
    [acc EXCEPT !.out = Append(@, [o EXCEPT !.assigned = TRUE, !.textLine = acc.topTextLine]),
                !.width = Max(o.width, @),
                !.topTextLine = @ + 2]
  ELSE
    [acc EXCEPT !.out = Append(@, [o EXCEPT !.assigned = TRUE, !.textLine = acc.textLine]),
                !.width = Max(o.width, @),
                !.textLine = @ + 2]

RECURSIVE OrnamentLoop(_, _)
OrnamentLoop(acc, rest) ==
  IF rest = <<>> THEN acc ELSE OrnamentLoop(OrnamentStep(acc, Head(rest)), Tail(rest))

\* Ornament.format that sets the reserves to what its own list takes
OrnamentFormatOwnReserve(defd, l, s) ==
  IF ~defd \/ Len(l) = 0 THEN Returned(l, s, "false")
  ELSE LET acc == OrnamentLoop([out |-> <<>>, leftShift |-> 0, rightShift |-> 0,
                                width |-> 0, textLine |-> s.textLine, topTextLine |-> s.topTextLine], l)
       IN Returned(acc.out,
                   [leftShift |-> acc.leftShift + acc.width \div 2,
                    rightShift |-> acc.rightShift + acc.width \div 2,
                    textLine |-> acc.textLine,
                    topTextLine |-> acc.topTextLine],
                   "true")

\* Ornament.format, first version
OrnamentFormat(defd, l, s) ==
  IF ~defd \/ Len(l) = 0 THEN Returned(l, s, "false")
  ELSE LET acc == OrnamentLoop([out |-> <<>>, leftShift |-> s.leftShift, rightShift |-> s.rightShift,
                                width |-> 0, textLine |-> s.textLine, topTextLine |-> s.topTextLine], l)
       IN Returned(acc.out,
                   [leftShift |-> acc.leftShift + acc.width \div 2,
                    rightShift |-> acc.rightShift + acc.width \div 2,
                    textLine |-> acc.textLine,
                    topTextLine |-> acc.topTextLine],
                   "true")

\* the x shift of an ornament after the release and attack tests of the
\* second version
Ornament2XShift(acc, o) ==
  LET x1 == IF o.type \in ornamentRelease THEN o.xShift + (acc.rightShift + 2) ELSE o.xShift
  IN IF o.type \in ornamentAttack THEN x1 - (acc.leftShift + 2) ELSE x1

\* one pass of the loop of the second version of Ornament.format; acc.err
\* is set when the pass throws
Ornament2Step(acc, o) ==
  LET x == Ornament2XShift(acc, o)
      a1 == IF o.width # 0 /\ x < 0 THEN [acc EXCEPT !.leftShift = @ + o.width]
            ELSE IF o.width # 0 /\ x >= 0 THEN [acc EXCEPT !.rightShift = @ + o.width + minPadding]
            ELSE [acc EXCEPT !.width = Max(o.width, @)]
      o1 == [o EXCEPT !.xShift = x]
  IN IF o.type \in ornamentArticulation THEN
       IF o.note = "none" THEN [a1 EXCEPT !.out = Append(@, o1), !.err = "NoAttachedNote"]
       ELSE IF o.line >= 3 THEN
         [a1 EXCEPT !.out = Append(@, [o1 EXCEPT !.assigned = TRUE, !.position = "ABOVE", !.textLine = acc.topTextLine]),
                    !.topTextLine = @ + o.height \div STAVE_LINE_DISTANCE]
       ELSE
         [a1 EXCEPT !.out = Append(@, [o1 EXCEPT !.assigned = TRUE, !.position = "BELOW", !.textLine = acc.textLine]),
                    !.textLine = @ + o.height \div STAVE_LINE_DISTANCE]
     ELSE IF o.position = "ABOVE" THEN
       [a1 EXCEPT !.out = Append(@, [o1 EXCEPT !.assigned = TRUE, !.textLine = acc.topTextLine]), !.topTextLine = @ + 2]
     ELSE
       [a1 EXCEPT !.out = Append(@, [o1 EXCEPT !.assigned = TRUE, !.textLine = acc.textLine]), !.textLine = @ + 2]

RECURSIVE Ornament2Loop(_, _)
Ornament2Loop(acc, rest) ==
  IF rest = <<>> THEN acc
  ELSE LET a == Ornament2Step(acc, Head(rest))
       IN IF a.err # "none" THEN [a EXCEPT !.out = @ \o Tail(rest)]
          ELSE Ornament2Loop(a, Tail(rest))

\* Ornament.format, second version: the text-line counters are written to
\* the state inside the loop, the shifts only after it
OrnamentFormat2(defd, l, s) ==
  IF ~defd \/ Len(l) = 0 THEN Returned(l, s, "false")
  ELSE LET acc == Ornament2Loop([out |-> <<>>, leftShift |-> s.leftShift, rightShift |-> s.rightShift,
                                 width |-> 0, textLine |-> s.textLine, topTextLine |-> s.topTextLine,
                                 err |-> "none"], l)
       IN IF acc.err # "none"
          THEN Thrown(acc.out, [s EXCEPT !.textLine = acc.textLine, !.topTextLine = acc.topTextLine], acc.err)
          ELSE Returned(acc.out,
                        [leftShift |-> acc.leftShift + acc.width \div 2,
                         rightShift |-> acc.rightShift + acc.width \div 2,
                         textLine |-> acc.textLine,
                         topTextLine |-> acc.topTextLine],
                        "true")

----------------------------------------------------------------------------
(* ChordSymbol *)

ChordSymbolBlock(mod, w) == [mod |-> mod, width |-> w, xShift |-> 0, vAlign |-> FALSE]

isSuperscript(block) == block.mod = "SUPERSCRIPT"
isSubscript(block) == block.mod = "SUBSCRIPT"

\* a chord symbol with its blocks, attached (or not) to a note of glyph
\* width gw
ChordSymbol(blocks, vertical, horizontal, note, gw) ==
  [blocks |-> blocks, vertical |-> vertical, horizontal |-> horizontal,
   note |-> note, glyphWidth |-> gw, width |-> 0, textLine |-> 0, assigned |-> FALSE]

\* the block lists a chord symbol is drawn from
BlockInputs ==
  { <<ChordSymbolBlock("NONE", 8)>>,
    <<ChordSymbolBlock("NONE", 8), ChordSymbolBlock("SUPERSCRIPT", 6)>>,
    <<ChordSymbolBlock("NONE", 8), ChordSymbolBlock("SUBSCRIPT", 4)>>,
    <<ChordSymbolBlock("NONE", 8), ChordSymbolBlock("SUPERSCRIPT", 6), ChordSymbolBlock("SUBSCRIPT", 4)>>,
    <<ChordSymbolBlock("NONE", 8), ChordSymbolBlock("SUPERSCRIPT", 4), ChordSymbolBlock("SUBSCRIPT", 6)>>,
    <<ChordSymbolBlock("SUPERSCRIPT", 6), ChordSymbolBlock("SUBSCRIPT", 4), ChordSymbolBlock("NONE", 4)>> }

\* the chord symbols a list is drawn from
ChordSymbolInputs ==
       {ChordSymbol(b, v, "LEFT", "StaveNote", 10) : b \in BlockInputs, v \in {"TOP", "BOTTOM"}}
  \cup {ChordSymbol(<<ChordSymbolBlock("NONE", 8)>>, "TOP", h, "StaveNote", 10) : h \in {"RIGHT", "CENTER"}}
  \cup {ChordSymbol(<<ChordSymbolBlock("NONE", 8), ChordSymbolBlock("SUPERSCRIPT", 6)>>,
                     "TOP", h, "StaveNote", 10) : h \in {"RIGHT", "CENTER"}}
  \cup {ChordSymbol(<<ChordSymbolBlock("NONE", 8)>>, "TOP", "LEFT", n, 0) : n \in {"none", "TextNote"}}

isStemmableNote(note) == note \in {"StaveNote", "TabNote"}
isTabNote(note) == note = "TabNote"
isStaveNote(note) == note = "StaveNote"

\* ChordSymbolBlockStep without the overlay of a subscript on the
\* superscript before it
ChordSymbolBlockStepNoOverlay(b, blocks, j) ==
  LET block == blocks[j]
  IN [out |-> Append(b.out, [block EXCEPT !.xShift = b.width]),
      width |-> b.width + block.width,
      lineSpaces |-> IF isSuperscript(block) \/ isSubscript(block) THEN 2 ELSE b.lineSpaces]

\* one pass of the loop over the blocks of a symbol: b.width is the running
\* width, b.out the blocks placed so far
ChordSymbolBlockStep(b, blocks, j) ==
  LET block == blocks[j]
      overlay == isSubscript(block) /\ j > 1 /\ isSuperscript(blocks[j - 1])
      prev == blocks[j - 1]
      w1 == IF overlay
            THEN b.width + (0 - prev.width)
                 + (IF prev.width > block.width THEN prev.width - block.width ELSE 0)
            ELSE b.width
  IN [out |-> Append(b.out, IF overlay
                            THEN [block EXCEPT !.xShift = b.width - prev.width, !.vAlign = TRUE]
                            ELSE [block EXCEPT !.xShift = b.width]),
      width |-> w1 + block.width,
      lineSpaces |-> IF isSuperscript(block) \/ isSubscript(block) THEN 2 ELSE b.lineSpaces]

RECURSIVE ChordSymbolBlocks(_, _, _)
ChordSymbolBlocks(b, blocks, j) ==
  IF j > Len(blocks) THEN b ELSE ChordSymbolBlocks(ChordSymbolBlockStep(b, blocks, j), blocks, j + 1)

\* ChordSymbolLines with the symbols below the staff treated like those
\* above it
ChordSymbolLinesAlike(acc, top, lineSpaces) ==
  [line |-> IF top THEN acc.topTextLine ELSE acc.textLine,
   topTextLine |-> IF top THEN acc.topTextLine + lineSpaces ELSE acc.topTextLine,
   textLine |-> IF top THEN acc.textLine ELSE acc.textLine + lineSpaces]

\* the text line ChordSymbol.format gives a symbol that takes lineSpaces
\* lines, and the two counters after it
ChordSymbolLines(acc, top, lineSpaces) ==
  [line |-> IF top THEN acc.topTextLine ELSE acc.textLine + 1,
   topTextLine |-> IF top THEN acc.topTextLine + lineSpaces ELSE acc.topTextLine,
   textLine |-> IF top THEN acc.textLine ELSE acc.textLine + lineSpaces + 1]

\* one pass of the loop over the symbols
ChordSymbolStep(acc, symbol) ==
  IF symbol.note = "none" THEN [acc EXCEPT !.out = Append(@, symbol), !.err = "NoAttachedNote"]
  ELSE
    LET b == ChordSymbolBlocks([out |-> <<>>, width |-> 0, lineSpaces |-> 1], symbol.blocks, 1)
        width == b.width
        lines == ChordSymbolLines(acc, symbol.vertical = "TOP", b.lineSpaces)
        sym == [symbol EXCEPT !.assigned = TRUE, !.blocks = b.out, !.textLine = lines.line, !.width = width]
        a1 == [acc EXCEPT !.topTextLine = lines.topTextLine, !.textLine = lines.textLine]
        a2 == IF ~isStemmableNote(symbol.note) THEN a1
              ELSE IF symbol.horizontal = "LEFT" THEN
                [a1 EXCEPT !.maxLeftGlyphWidth = Max(symbol.glyphWidth, @),
                           !.leftWidth = Max(@, width) + minPadding]
              ELSE IF symbol.horizontal = "RIGHT" THEN
                [a1 EXCEPT !.maxRightGlyphWidth = Max(symbol.glyphWidth, @),
                           !.rightWidth = Max(@, width)]
              ELSE
                [a1 EXCEPT !.leftWidth = Max(@, width \div 2) + minPadding,
                           !.rightWidth = Max(@, width \div 2),
                           !.maxLeftGlyphWidth = Max(symbol.glyphWidth \div 2, @),
                           !.maxRightGlyphWidth = Max(symbol.glyphWidth \div 2, @)]
    IN [a2 EXCEPT !.out = Append(@, sym)]

RECURSIVE ChordSymbolLoop(_, _)
ChordSymbolLoop(acc, rest) ==
  IF rest = <<>> THEN acc
  ELSE LET a == ChordSymbolStep(acc, Head(rest))
       IN IF a.err # "none" THEN [a EXCEPT !.out = @ \o Tail(rest)]
          ELSE ChordSymbolLoop(a, Tail(rest))

\* ChordSymbol.format that reserves all of the widths not yet reserved,
\* whatever the glyph width of the note
ChordSymbolFormatBesideGlyph(defd, l, s) ==
  IF ~defd \/ Len(l) = 0 THEN Returned(l, s, "false")
  ELSE LET acc == ChordSymbolLoop([out |-> <<>>, leftWidth |-> 0, rightWidth |-> 0,
                                   maxLeftGlyphWidth |-> 0, maxRightGlyphWidth |-> 0,
                                   textLine |-> s.textLine, topTextLine |-> s.topTextLine,
                                   err |-> "none"], l)
       IN IF acc.err # "none"
          THEN Thrown(acc.out, [s EXCEPT !.textLine = acc.textLine, !.topTextLine = acc.topTextLine], acc.err)
          ELSE Returned(acc.out,
                        [leftShift |-> s.leftShift + Max(acc.leftWidth - s.leftShift, 0),
                         rightShift |-> s.rightShift + Max(acc.rightWidth - s.rightShift, 0),
                         textLine |-> acc.textLine,
                         topTextLine |-> acc.topTextLine],
                        "true")

\* ChordSymbol.format
ChordSymbolFormat(defd, l, s) ==
  IF ~defd \/ Len(l) = 0 THEN Returned(l, s, "false")
  ELSE LET acc == ChordSymbolLoop([out |-> <<>>, leftWidth |-> 0, rightWidth |-> 0,
                                   maxLeftGlyphWidth |-> 0, maxRightGlyphWidth |-> 0,
                                   textLine |-> s.textLine, topTextLine |-> s.topTextLine,
                                   err |-> "none"], l)
           rightOverlap == Min(Max(acc.rightWidth - acc.maxRightGlyphWidth, 0),
                               Max(acc.rightWidth - s.rightShift, 0))
           leftOverlap == Min(Max(acc.leftWidth - acc.maxLeftGlyphWidth, 0),
                              Max(acc.leftWidth - s.leftShift, 0))
       IN IF acc.err # "none"
          THEN Thrown(acc.out, [s EXCEPT !.textLine = acc.textLine, !.topTextLine = acc.topTextLine], acc.err)
          ELSE Returned(acc.out,
                        [leftShift |-> s.leftShift + leftOverlap,
                         rightShift |-> s.rightShift + rightOverlap,
                         textLine |-> acc.textLine,
                         topTextLine |-> acc.topTextLine],
                        "true")

----------------------------------------------------------------------------
(* Bend *)

\* a bend whose phrase elements have the total width pw (xShift = 0 and
\* updateWidth() in the constructor), attached (or not) to a note; ls is the
\* least string of a tab note
Bend(pw, note, ls) ==
  [phraseWidth |-> pw, note |-> note, leastString |-> ls,
   xShift |-> 0, width |-> pw, textLine |-> 0, assigned |-> FALSE]

\* the bends a list is drawn from
BendInputs ==
       {Bend(10, "none", 0)}
  \cup {Bend(pw, "StaveNote", 0) : pw \in {10, 16}}
  \cup {Bend(pw, "TabNote", ls) : pw \in {10, 16}, ls \in {1, 4}}

\* Bend.setXShift followed by updateWidth
BendSetXShift(bend, value) == [bend EXCEPT !.assigned = TRUE, !.xShift = value, !.width = bend.phraseWidth + value]

\* BendStep with every bend taking a text line of its own
BendStepStacked(acc, bend) ==
  IF bend.note = "none" THEN [acc EXCEPT !.out = Append(@, bend), !.err = "NoAttachedNote"]
  ELSE
    LET stringPos == bend.leastString - 1
        ttl == IF isTabNote(bend.note) /\ acc.topTextLine < stringPos THEN stringPos ELSE acc.topTextLine
        b1 == BendSetXShift(bend, acc.lastWidth + 5)
    IN [acc EXCEPT !.out = Append(@, [b1 EXCEPT !.textLine = ttl]),
                   !.lastWidth = b1.width,
                   !.topTextLine = ttl + 1]

\* one pass of the loop of Bend.format
BendStep(acc, bend) ==
  IF bend.note = "none" THEN [acc EXCEPT !.out = Append(@, bend), !.err = "NoAttachedNote"]
  ELSE
    LET stringPos == bend.leastString - 1
        ttl == IF isTabNote(bend.note) /\ acc.topTextLine < stringPos THEN stringPos ELSE acc.topTextLine
        b1 == BendSetXShift(bend, acc.lastWidth + 5)
    IN [acc EXCEPT !.out = Append(@, [b1 EXCEPT !.textLine = ttl]),
                   !.lastWidth = b1.width,
                   !.topTextLine = ttl]

RECURSIVE BendLoopPastError(_, _)
\* a loop that goes on with the bends after the one that raised
BendLoopPastError(acc, rest) ==
  IF rest = <<>> THEN acc ELSE BendLoopPastError(BendStep(acc, Head(rest)), Tail(rest))

RECURSIVE BendLoop(_, _)
BendLoop(acc, rest) ==
  IF rest = <<>> THEN acc
  ELSE LET a == BendStep(acc, Head(rest))
       IN IF a.err # "none" THEN [a EXCEPT !.out = @ \o Tail(rest)]
          ELSE BendLoop(a, Tail(rest))

\* Bend.format without the test for an empty list
BendFormatNoGuard(defd, l, s) ==
  LET acc == BendLoop([out |-> <<>>, lastWidth |-> 0, topTextLine |-> s.topTextLine,
                       err |-> "none"], l)
  IN IF acc.err # "none"
     THEN Thrown(acc.out, [s EXCEPT !.topTextLine = acc.topTextLine], acc.err)
     ELSE Returned(acc.out,
                   [s EXCEPT !.rightShift = @ + acc.lastWidth,
                             !.topTextLine = acc.topTextLine + 1],
                   "true")

\* Bend.format
BendFormat(defd, l, s) ==
  IF ~defd \/ Len(l) = 0 THEN Returned(l, s, "false")
  ELSE LET acc == BendLoop([out |-> <<>>, lastWidth |-> 0, topTextLine |-> s.topTextLine,
                            err |-> "none"], l)
       IN IF acc.err # "none"
          THEN Thrown(acc.out, [s EXCEPT !.topTextLine = acc.topTextLine], acc.err)
          ELSE Returned(acc.out,
                        [s EXCEPT !.rightShift = @ + acc.lastWidth,
                                  !.topTextLine = acc.topTextLine + 1],
                        "true")

----------------------------------------------------------------------------
(* Stroke *)

\* a stroke (position LEFT, xShift 0) of width w attached (or not) to a
\* note at a notehead index; px is the left displaced head width of a
\* stave note
Stroke(w, note, hasIndex, px) ==
  [width |-> w, note |-> note, hasIndex |-> hasIndex, displacedPx |-> px,
   position |-> "LEFT", xShift |-> 0, assigned |-> FALSE]

\* the strokes a list is drawn from
StrokeInputs ==
       {Stroke(10, "none", TRUE, 0), Stroke(10, "TextNote", TRUE, 0), Stroke(10, "StaveNote", FALSE, 0)}
  \cup {Stroke(w, "TabNote", TRUE, 0) : w \in {10, 14}}
  \cup {Stroke(w, "StaveNote", TRUE, px) : w \in {10, 14}, px \in {0, 6}}

\* the error the map callback of Stroke.format raises for a stroke
StrokeError(stroke) ==
  IF stroke.note = "none" THEN "NoNote"
  ELSE IF ~stroke.hasIndex THEN "NoIndex"
  ELSE IF isStaveNote(stroke.note) \/ isTabNote(stroke.note) THEN "none"
  ELSE "Internal"

\* the shift the map callback of Stroke.format computes for a stroke
StrokeShift(stroke) == IF isStaveNote(stroke.note) THEN stroke.displacedPx ELSE 0

RECURSIVE StrokeReduceSum(_, _)
\* a reduce that adds the stroke widths up
StrokeReduceSum(xShift, rest) ==
  IF rest = <<>> THEN xShift ELSE StrokeReduceSum(Head(rest).width + 0 + xShift, Tail(rest))

RECURSIVE StrokeReduce(_, _)
\* the reduce of Stroke.format: the largest stroke width
StrokeReduce(xShift, rest) ==
  IF rest = <<>> THEN xShift ELSE StrokeReduce(Max(Head(rest).width + 0, xShift), Tail(rest))

\* Stroke.format
StrokeFormat(defd, l, s) ==
  IF ~defd \/ Len(l) = 0 THEN Returned(l, s, "false")
  ELSE IF \E i \in 1..Len(l) : StrokeError(l[i]) # "none"
  THEN LET i == CHOOSE k \in 1..Len(l) :
                  StrokeError(l[k]) # "none" /\ \A m \in 1..(k - 1) : StrokeError(l[m]) = "none"
       IN Thrown(l, s, StrokeError(l[i]))
  ELSE LET strokeShift == s.leftShift
       IN Returned([i \in 1..Len(l) |->
                      [l[i] EXCEPT !.assigned = TRUE, !.xShift = ModifierSetXShift(l[i].position, strokeShift + StrokeShift(l[i]))]],
                   [s EXCEPT !.leftShift = @ + StrokeReduce(0, l)],
                   "true")

----------------------------------------------------------------------------
(* Parenthesis *)

\* a parenthesis of width w at a position, attached (or not) to a note at a
\* notehead index; px is what the note's getLeftParenthesisPx /
\* getRightParenthesisPx returns for that notehead
Parenthesis(position, w, note, hasIndex, px) ==
  [position |-> position, width |-> w, note |-> note, hasIndex |-> hasIndex,
   px |-> px, xShift |-> 0, assigned |-> FALSE]

\* the parentheses a list is drawn from
ParenthesisInputs ==
       {Parenthesis(p, w, "StaveNote", TRUE, px) : p \in {"LEFT", "RIGHT"}, w \in {6, 8}, px \in {0, 8}}
  \cup {Parenthesis("LEFT", 6, "none", TRUE, 0), Parenthesis("RIGHT", 6, "StaveNote", FALSE, 0)}

\* ParenthesisStep that leaves out setXShift when the shift is zero
ParenthesisStepSkipsUnshifted(acc, parenthesis) ==
  IF parenthesis.note = "none" THEN [acc EXCEPT !.out = Append(@, parenthesis), !.err = "NoNote"]
  ELSE IF ~parenthesis.hasIndex THEN [acc EXCEPT !.out = Append(@, parenthesis), !.err = "NoIndex"]
  ELSE
    LET pos == parenthesis.position
        shift == IF pos \in {"LEFT", "RIGHT"} THEN parenthesis.px ELSE 0
    IN [acc EXCEPT
          !.out = Append(@, IF shift = 0 THEN parenthesis
                            ELSE [parenthesis EXCEPT !.assigned = TRUE,
                                                     !.xShift = ModifierSetXShift(pos, shift)]),
          !.xWidthR = IF pos = "RIGHT"
                      THEN (IF @ > shift + parenthesis.width THEN @ ELSE shift + parenthesis.width)
                      ELSE @,
          !.xWidthL = IF pos = "LEFT"
                      THEN (IF @ > shift + parenthesis.width THEN @ ELSE shift + parenthesis.width)
                      ELSE @]

\* one pass of the loop of Parenthesis.format
ParenthesisStep(acc, parenthesis) ==
  IF parenthesis.note = "none" THEN [acc EXCEPT !.out = Append(@, parenthesis), !.err = "NoNote"]
  ELSE IF ~parenthesis.hasIndex THEN [acc EXCEPT !.out = Append(@, parenthesis), !.err = "NoIndex"]
  ELSE
    LET pos == parenthesis.position
        shift == IF pos \in {"LEFT", "RIGHT"} THEN parenthesis.px ELSE 0
    IN [acc EXCEPT
          !.out = Append(@, [parenthesis EXCEPT !.assigned = TRUE,
                                                !.xShift = ModifierSetXShift(pos, shift)]),
          !.xWidthR = IF pos = "RIGHT"
                      THEN (IF @ > shift + parenthesis.width THEN @ ELSE shift + parenthesis.width)
                      ELSE @,
          !.xWidthL = IF pos = "LEFT"
                      THEN (IF @ > shift + parenthesis.width THEN @ ELSE shift + parenthesis.width)
                      ELSE @]

RECURSIVE ParenthesisLoop(_, _)
ParenthesisLoop(acc, rest) ==
  IF rest = <<>> THEN acc
  ELSE LET a == ParenthesisStep(acc, Head(rest))
       IN IF a.err # "none" THEN [a EXCEPT !.out = @ \o Tail(rest)]
          ELSE ParenthesisLoop(a, Tail(rest))

\* Parenthesis.format
ParenthesisFormat(defd, l, s) ==
  IF ~defd \/ Len(l) = 0 THEN Returned(l, s, "false")
  ELSE LET acc == ParenthesisLoop([out |-> <<>>, xWidthL |-> 0, xWidthR |-> 0, err |-> "none"], l)
       IN IF acc.err # "none"
          THEN Thrown(acc.out, s, acc.err)
          ELSE Returned(acc.out,
                        [s EXCEPT !.leftShift = @ + acc.xWidthL, !.rightShift = @ + acc.xWidthR],
                        "true")

----------------------------------------------------------------------------
(* The modifiers of one note and the format calls made on them *)

Categories == {"Ornament", "ChordSymbol", "Bend", "Stroke", "Parenthesis"}

Inputs(cat) ==
  CASE cat = "Ornament" -> OrnamentInputs
    [] cat = "ChordSymbol" -> ChordSymbolInputs
    [] cat = "Bend" -> BendInputs
    [] cat = "Stroke" -> StrokeInputs
    [] cat = "Parenthesis" -> ParenthesisInputs

\* a new ModifierContextState, and one that earlier categories have used
ZeroState == [leftShift |-> 0, rightShift |-> 0, textLine |-> 0, topTextLine |-> 0]
UsedState == [leftShift |-> 4, rightShift |-> 6, textLine |-> 1, topTextLine |-> 2]
States0 == {ZeroState, UsedState}

NoCall == [op |-> "none", ret |-> "none", err |-> "none", fresh |-> FALSE]

\* the values of JavaScript the metric lookups handle: undefined, a number,
\* and the object found at path p of a metrics table
JsUndefined == [t |-> "undefined", v |-> 0, p |-> <<>>]
JsNumber(n) == [t |-> "number", v |-> n, p |-> <<>>]
JsObject(path) == [t |-> "object", v |-> 0, p |-> path]
JsBoolean(b) == [t |-> "boolean", v |-> IF b THEN 1 ELSE 0, p |-> <<>>]

\* the font names the calls are made with
FontNames == {"Bravura", "Petaluma"}

\* the registry is empty: no Font object is constructed, and no web font is requested
NoFont == [id |-> 0, data |-> 0, metrics |-> 0]
NoFontCall == [op |-> "none", name |-> "", key |-> <<>>, defaultValue |-> JsUndefined,
               data |-> 0, metrics |-> 0, err |-> "none", result |-> JsUndefined,
               font |-> 0, before |-> [n \in FontNames |-> NoFont],
               returned |-> [n \in FontNames |-> {}]]
FontInit ==
  /\ fonts = [n \in FontNames |-> NoFont]
  /\ fq = NoFontCall
  /\ web = [calls |-> <<>>, faces |-> <<>>]

\* an element without class labels that no registry holds
ElementInit ==
  /\ el = [class |-> <<>>, registered |-> FALSE]
  /\ eq = [op |-> "none", className |-> "", before |-> <<>>, updates |-> <<>>]

\* no justify call is made yet
NoJustify == [op |-> "none", slices |-> <<>>, targetWidth |-> 0,
              overflow |-> FALSE, scale |-> 0, widths |-> <<>>, xs |-> <<>>]
JustifyInit == jq = NoJustify

\* no sanitizeDuration call is made yet
DurationInit == dq = <<>>

\* no TextDynamics note is constructed yet; `given` is the text handed to the
\* constructor and `textBefore` the text the note held before the last
\* preFormat call
NoTextDynamics == [made |-> FALSE, given |-> <<>>, sequence |-> <<>>, text |-> <<>>,
                   preFormatted |-> FALSE, err |-> "none", calls |-> 0,
                   textBefore |-> <<>>]
DynamicsInit == td = NoTextDynamics

\* no annotation is set up for drawing; `phrase` is the phrase of a Bend,
\* `type` and `height` the type and the text height of an Ornament,
\* `formatted` holds the layout fields as formatting left them, and `draws`
\* lists what every draw call rendered
NoDraw == [kind |-> "none", xShift |-> 0, yShift |-> 0, textLine |-> 0, phrase |-> <<>>,
           type |-> "", height |-> 0, width |-> 0,
           formatted |-> [xShift |-> 0, yShift |-> 0, phrase |-> <<>>],
           draws |-> <<>>]
DrawInit == dw = NoDraw

\* an options object of the Tuplet constructor; an option left out is
\* undefined
TupletOptions(numNotes, notesOccupied, bracketed, ratioed) ==
  [numNotes |-> numNotes, notesOccupied |-> notesOccupied,
   bracketed |-> bracketed, ratioed |-> ratioed]

\* no call is made on a tuplet; `notesGiven`, `tnotes` and `options` are the
\* arguments of the last constructor call and `made` the fields it computed
NoQuery == [op |-> "none", t |-> 0, err |-> "none", result |-> 0,
            notesGiven |-> FALSE, tnotes |-> <<>>,
            options |-> TupletOptions(JsUndefined, JsUndefined, JsUndefined, JsUndefined),
            made |-> [numNotes |-> 0, notesOccupied |-> 0,
                      bracketed |-> FALSE, ratioed |-> FALSE]]

\* no tuplet is constructed yet: every note has an empty tuplet stack
TupletInit ==
  /\ notes = [n \in {1, 2, 3} |-> [tupletStack |-> <<>>]]
  /\ tuplets = <<>>
  /\ tq = NoQuery

\* no tie is constructed yet, and no rendering context is set
NoTie == [set |-> FALSE, style |-> FALSE, firstNote |-> FALSE, lastNote |-> FALSE,
          firstIndices |-> <<>>, lastIndices |-> <<>>]

\* a notes structure without notes and without index lists
NoTieNotes == [firstNote |-> FALSE, lastNote |-> FALSE,
               firstIndices |-> [defined |-> FALSE, v |-> <<>>],
               lastIndices |-> [defined |-> FALSE, v |-> <<>>]]

\* no call is made on the tie; `arg` and `stored` are the argument of the
\* last setNotes and the notes the tie held when it was called
NoRender == [op |-> "none", err |-> "none", firstYs |-> <<>>, lastYs |-> <<>>,
             direction |-> 0, drawn |-> <<>>, arg |-> NoTieNotes, stored |-> NoTie,
             before |-> [present |-> FALSE, groups |-> 0, saved |-> 0]]

TieInit ==
  /\ tie = NoTie
  /\ ctx = [present |-> FALSE, groups |-> 0, saved |-> 0]
  /\ tr = NoRender

LayoutInit ==
  /\ category = "none"
  /\ listDefined = TRUE
  /\ list = <<>>
  /\ state = ZeroState
  /\ state0 = ZeroState
  /\ list0 = <<>>
  /\ pre = ZeroState
  /\ first = <<>>
  /\ runs = 0
  /\ last = NoCall

Init ==
  /\ version \in {1, 2}
  /\ LayoutInit
  /\ TupletInit
  /\ TieInit
  /\ FontInit
  /\ ElementInit
  /\ JustifyInit
  /\ DurationInit
  /\ DynamicsInit
  /\ DrawInit

\* the modifiers of one category are attached to a note whose state holds
\* s0; a behaviour follows the formatting of one note
NewAnchor ==
  /\ category = "none"
  /\ \E cat \in Categories, s0 \in States0, defd \in BOOLEAN :
       \E l \in SeqUpTo(Inputs(cat), MaxLen) :
         /\ defd \/ l = <<>>
         /\ category' = cat
         /\ listDefined' = defd
         /\ list' = l
         /\ state' = s0
         /\ state0' = s0
         /\ list0' = l
         /\ pre' = s0
         /\ first' = l
         /\ runs' = 0
         /\ last' = NoCall
  /\ UNCHANGED <<version, notes, tuplets, tq, tie, ctx, tr,
               fontVars, elementVars, justifyVars, durationVars, dynamicsVars, drawVars>>

\* ghost: `assigned` tells that the format call under way has written an
\* offset of the modifier (setXShift, setTextLine, xShift +=); no modifier
\* is marked when a call starts
Unassigned(l) == [i \in DOMAIN l |-> [l[i] EXCEPT !.assigned = FALSE]]

\* the effect of a format call with the result r
Called(r) ==
  /\ runs < MaxRuns
  /\ list' = r.list
  /\ state' = r.state
  /\ list0' = list
  /\ pre' = state
  /\ first' = IF runs = 0 THEN r.list ELSE first
  /\ runs' = runs + 1
  /\ last' = [op |-> "format", ret |-> r.ret, err |-> r.err, fresh |-> (state = state0)]
  /\ UNCHANGED <<version, category, listDefined, state0, notes, tuplets, tq, tie, ctx, tr,
               fontVars, elementVars, justifyVars, durationVars, dynamicsVars, drawVars>>

FormatOrnaments ==
  /\ category = "Ornament"
  /\ version = 1
  /\ Called(OrnamentFormat(listDefined, Unassigned(list), state))

FormatOrnaments2 ==
  /\ category = "Ornament"
  /\ version = 2
  /\ Called(OrnamentFormat2(listDefined, Unassigned(list), state))

FormatChordSymbols ==
  /\ category = "ChordSymbol"
  /\ Called(ChordSymbolFormat(listDefined, Unassigned(list), state))

FormatBends ==
  /\ category = "Bend"
  /\ Called(BendFormat(listDefined, Unassigned(list), state))

FormatStrokes ==
  /\ category = "Stroke"
  /\ Called(StrokeFormat(listDefined, Unassigned(list), state))

FormatParentheses ==
  /\ category = "Parenthesis"
  /\ Called(ParenthesisFormat(listDefined, Unassigned(list), state))

\* the state of the note is set back to the values it held at first
ResetState ==
  /\ runs >= 1
  /\ runs < MaxRuns
  /\ state # state0
  /\ state' = state0
  /\ last' = [NoCall EXCEPT !.op = "reset"]
  /\ UNCHANGED <<version, category, listDefined, list, state0, list0, pre, first, runs,
                 notes, tuplets, tq, tie, ctx, tr,
                 fontVars, elementVars, justifyVars, durationVars, dynamicsVars, drawVars>>

Next ==
  \/ NewAnchor
  \/ FormatOrnaments
  \/ FormatOrnaments2
  \/ FormatChordSymbols
  \/ FormatBends
  \/ FormatStrokes
  \/ FormatParentheses
  \/ ResetState

Spec == Init /\ [][Next]_vars

----------------------------------------------------------------------------
(* Tuplet (src/src/tuplet.ts) *)

\* the most tuplets constructed over the notes of one behaviour
MaxTuplets == 2

LOCATION_TOP == 1
LOCATION_BOTTOM == -1
NESTING_OFFSET == 15
\* the notes tuplets are built over, in time order
NoteIds == {1, 2, 3}
\* the note arrays handed to the Tuplet constructor
NoteLists == {<<>>, <<1>>, <<3>>, <<1, 2>>, <<2, 3>>, <<1, 2, 3>>}
\* options.location: 0 stands for an option left out, 2 is no location
LocationOptions == {0, LOCATION_TOP, LOCATION_BOTTOM, 2}
\* options.yOffset: 0 also stands for an option left out
YOffsetOptions == {0, 5}

\* what the accessors of a note return: note 1 has an up stem, note 2 a down
\* stem and a modifier context with text lines on both sides, note 3 is a
\* stemless note; notes 1 and 2 are beamed
NoteGeometry(n) ==
  CASE n = 1 -> [hasStem |-> TRUE, isRest |-> FALSE, stemDirection |-> "UP",
                 topY |-> 30, baseY |-> 70, hasModifierContext |-> FALSE,
                 topTextLine |-> 0, textLine |-> 0, hasBeam |-> TRUE]
    [] n = 2 -> [hasStem |-> TRUE, isRest |-> FALSE, stemDirection |-> "DOWN",
                 topY |-> 110, baseY |-> 60, hasModifierContext |-> TRUE,
                 topTextLine |-> 2, textLine |-> 4, hasBeam |-> TRUE]
    [] n = 3 -> [hasStem |-> FALSE, isRest |-> FALSE, stemDirection |-> "UP",
                 topY |-> 0, baseY |-> 0, hasModifierContext |-> TRUE,
                 topTextLine |-> 0, textLine |-> 1, hasBeam |-> FALSE]

\* Stave.getYForLine and Note.getYForTopText of a stave whose top line is at
\* y = 40
getYForLine(line) == 40 + line * STAVE_LINE_DISTANCE
getYForTopText(textLine) == getYForLine(0 - textLine - 4)

\* Note.setTuplet: the tuplet is pushed on the tuplet stack of the note
NoteSetTuplet(ns, n, t) == [ns EXCEPT ![n].tupletStack = Append(@, t)]

\* setTupletLocation: a location that is neither TOP nor BOTTOM becomes TOP
setTupletLocation(location) ==
  IF location # LOCATION_TOP /\ location # LOCATION_BOTTOM THEN LOCATION_TOP ELSE location

RECURSIVE attach(_, _, _, _)
\* attach: every note of the tuplet t gets the tuplet, first note first
attach(ns, tnotes, t, i) ==
  IF i > Len(tnotes) THEN ns ELSE attach(NoteSetTuplet(ns, tnotes[i], t), tnotes, t, i + 1)

\* countTuplets with the filter on the location left out
countTupletsAnySide(ts, ns, n, location) == Len(ns[n].tupletStack)

\* countTuplets: the tuplets on the stack of note n that are at a location
countTuplets(ts, ns, n, location) ==
  Len(SelectSeq(ns[n].tupletStack, LAMBDA u : ts[u].location = location))

RECURSIVE nestedLoop(_, _, _, _, _)
\* the forEach of getNestedTupletCount over the notes of tuplet t
nestedLoop(ts, ns, t, i, acc) ==
  IF i > Len(ts[t].notes) THEN acc
  ELSE LET tupletCount == countTuplets(ts, ns, ts[t].notes[i], ts[t].location)
       IN nestedLoop(ts, ns, t, i + 1,
            [maxTupletCount |-> IF tupletCount > acc.maxTupletCount THEN tupletCount
                                ELSE acc.maxTupletCount,
             minTupletCount |-> IF tupletCount < acc.minTupletCount THEN tupletCount
                                ELSE acc.minTupletCount])

getNestedTupletCount(ts, ns, t) ==
  LET firstNote == ts[t].notes[1]
      c0 == countTuplets(ts, ns, firstNote, ts[t].location)
      r == nestedLoop(ts, ns, t, 1, [maxTupletCount |-> c0, minTupletCount |-> c0])
  IN r.maxTupletCount - r.minTupletCount

\* nestedTupletYOffset with the offset directed towards the staff
nestedTupletYOffsetInwards(ts, ns, t) ==
  getNestedTupletCount(ts, ns, t) * NESTING_OFFSET * ts[t].location

\* nestedTupletYOffset of getYPosition
nestedTupletYOffset(ts, ns, t) ==
  getNestedTupletCount(ts, ns, t) * NESTING_OFFSET * (0 - ts[t].location)

RECURSIVE topLoop(_, _, _)
\* the loop of getYPosition over the notes of a tuplet above the staff
topLoop(tnotes, i, yPosition) ==
  IF i > Len(tnotes) THEN yPosition
  ELSE LET note == NoteGeometry(tnotes[i])
           modLines == IF note.hasModifierContext THEN Max(0, note.topTextLine) ELSE 0
           modY == getYForTopText(modLines) - 2 * STAVE_LINE_DISTANCE
           topY == IF note.stemDirection = "UP"
                   THEN note.topY - STAVE_LINE_DISTANCE
                   ELSE note.baseY - 2 * STAVE_LINE_DISTANCE
           y1 == Min(topY, yPosition)
       IN topLoop(tnotes, i + 1,
            IF note.hasStem \/ note.isRest
            THEN (IF modLines > 0 THEN Min(modY, y1) ELSE y1)
            ELSE yPosition)

RECURSIVE lineCheckLoop(_, _, _)
\* the forEach of getYPosition that finds the line of a tuplet below the staff
lineCheckLoop(tnotes, i, lineCheck) ==
  IF i > Len(tnotes) THEN lineCheck
  ELSE LET nn == NoteGeometry(tnotes[i])
       IN lineCheckLoop(tnotes, i + 1,
            IF nn.hasModifierContext THEN Max(lineCheck, nn.textLine + 1) ELSE lineCheck)

RECURSIVE bottomLoop(_, _, _)
\* the loop of getYPosition over the notes of a tuplet below the staff
bottomLoop(tnotes, i, yPosition) ==
  IF i > Len(tnotes) THEN yPosition
  ELSE LET note == NoteGeometry(tnotes[i])
           bottomY == IF note.stemDirection = "UP"
                      THEN note.baseY + 2 * STAVE_LINE_DISTANCE
                      ELSE note.topY + STAVE_LINE_DISTANCE
       IN bottomLoop(tnotes, i + 1,
            IF (note.hasStem \/ note.isRest) /\ bottomY > yPosition THEN bottomY ELSE yPosition)

getYPosition(ts, ns, t) ==
  LET yOffset == ts[t].yOffset
      yPosition ==
        IF ts[t].location = LOCATION_TOP
        THEN topLoop(ts[t].notes, 1, getYForLine(0) - (3 * STAVE_LINE_DISTANCE) \div 2)
        ELSE bottomLoop(ts[t].notes, 1,
               getYForLine(lineCheckLoop(ts[t].notes, 1, 4)) + 2 * STAVE_LINE_DISTANCE)
  IN yPosition + nestedTupletYOffset(ts, ns, t) + yOffset

\* the options objects handed to the Tuplet constructor
TupletOptionsInputs ==
  {TupletOptions(JsUndefined, JsUndefined, JsUndefined, JsUndefined),
   TupletOptions(JsNumber(5), JsUndefined, JsUndefined, JsUndefined),
   TupletOptions(JsNumber(0), JsUndefined, JsUndefined, JsUndefined),
   TupletOptions(JsUndefined, JsNumber(4), JsUndefined, JsUndefined),
   TupletOptions(JsUndefined, JsNumber(0), JsUndefined, JsUndefined),
   TupletOptions(JsNumber(3), JsNumber(2), JsUndefined, JsBoolean(TRUE)),
   TupletOptions(JsNumber(5), JsNumber(4), JsBoolean(TRUE), JsUndefined),
   TupletOptions(JsNumber(7), JsNumber(4), JsBoolean(FALSE), JsBoolean(FALSE)),
   TupletOptions(JsUndefined, JsUndefined, JsBoolean(TRUE), JsBoolean(TRUE)),
   TupletOptions(JsUndefined, JsUndefined, JsBoolean(FALSE), JsBoolean(FALSE))}

Abs(x) == IF x < 0 THEN 0 - x ELSE x

\* the constructor with a tuplet ratioed by default when the two counts differ
TupletFieldsRatioedFromOne(tnotes, options) ==
  LET numNotes == IF options.numNotes.t # "undefined" THEN options.numNotes.v
                  ELSE Len(tnotes)
      notesOccupied == IF options.notesOccupied.t = "number" /\ options.notesOccupied.v # 0
                       THEN options.notesOccupied.v ELSE 2
  IN [numNotes |-> numNotes,
      notesOccupied |-> notesOccupied,
      bracketed |-> IF options.bracketed.t # "undefined" THEN options.bracketed.v = 1
                    ELSE \E i \in 1..Len(tnotes) : ~NoteGeometry(tnotes[i]).hasBeam,
      ratioed |-> IF options.ratioed.t # "undefined" THEN options.ratioed.v = 1
                  ELSE Abs(notesOccupied - numNotes) >= 1]

\* the fields the constructor computes from the notes and the options:
\* numNotes, notesOccupied (`options.notesOccupied || 2`), bracketed
\* (`notes.some((note) => !note.hasBeam())`) and ratioed
TupletFields(tnotes, options) ==
  LET numNotes == IF options.numNotes.t # "undefined" THEN options.numNotes.v
                  ELSE Len(tnotes)
      notesOccupied == IF options.notesOccupied.t = "number" /\ options.notesOccupied.v # 0
                       THEN options.notesOccupied.v ELSE 2
  IN [numNotes |-> numNotes,
      notesOccupied |-> notesOccupied,
      bracketed |-> IF options.bracketed.t # "undefined" THEN options.bracketed.v = 1
                    ELSE \E i \in 1..Len(tnotes) : ~NoteGeometry(tnotes[i]).hasBeam,
      ratioed |-> IF options.ratioed.t # "undefined" THEN options.ratioed.v = 1
                  ELSE Abs(notesOccupied - numNotes) > 1]

\* new Tuplet(notes, options); the notes argument may be left out
NewTuplet ==
  /\ Len(tuplets) < MaxTuplets
  /\ \E notesGiven \in BOOLEAN, location \in LocationOptions, yOffset \in YOffsetOptions,
        options \in TupletOptionsInputs :
       \E tnotes \in IF notesGiven THEN NoteLists ELSE {<<>>} :
         IF ~notesGiven \/ Len(tnotes) = 0
         THEN /\ tq' = [NoQuery EXCEPT !.op = "new", !.err = "BadArguments",
                                       !.notesGiven = notesGiven, !.tnotes = tnotes,
                                       !.options = options]
              /\ UNCHANGED <<notes, tuplets>>
         ELSE LET t == Len(tuplets) + 1
                  tuplet == [notes |-> tnotes,
                             location |-> setTupletLocation(IF location # 0 THEN location
                                                            ELSE LOCATION_TOP),
                             yOffset |-> yOffset]
              IN /\ tuplets' = Append(tuplets, tuplet)
                 /\ notes' = attach(notes, tnotes, t, 1)
                 /\ tq' = [NoQuery EXCEPT !.op = "new", !.t = t,
                                         !.notesGiven = notesGiven, !.tnotes = tnotes,
                                         !.options = options,
                                         !.made = TupletFields(tnotes, options)]
  /\ UNCHANGED <<layoutVars, tieVars, fontVars, elementVars, justifyVars, durationVars, dynamicsVars, drawVars>>

\* tuplet.setTupletLocation(location)
SetTupletLocation ==
  /\ \E t \in 1..Len(tuplets), location \in LocationOptions :
       /\ tuplets' = [tuplets EXCEPT ![t].location = setTupletLocation(location)]
       /\ tq' = [NoQuery EXCEPT !.op = "setTupletLocation", !.t = t]
  /\ UNCHANGED <<notes, layoutVars, tieVars, fontVars, elementVars, justifyVars, durationVars, dynamicsVars, drawVars>>

\* tuplet.getNestedTupletCount()
GetNestedTupletCount ==
  /\ \E t \in 1..Len(tuplets) :
       tq' = [NoQuery EXCEPT !.op = "getNestedTupletCount", !.t = t,
                             !.result = getNestedTupletCount(tuplets, notes, t)]
  /\ UNCHANGED <<notes, tuplets, layoutVars, tieVars, fontVars, elementVars, justifyVars, durationVars, dynamicsVars, drawVars>>

\* tuplet.getYPosition()
GetYPosition ==
  /\ \E t \in 1..Len(tuplets) :
       tq' = [NoQuery EXCEPT !.op = "getYPosition", !.t = t,
                             !.result = getYPosition(tuplets, notes, t)]
  /\ UNCHANGED <<notes, tuplets, layoutVars, tieVars, fontVars, elementVars, justifyVars, durationVars, dynamicsVars, drawVars>>

NextTuplet ==
  \/ NewTuplet
  \/ SetTupletLocation
  \/ GetNestedTupletCount
  \/ GetYPosition

InitTuplet ==
  /\ version = 1
  /\ LayoutInit
  /\ TupletInit
  /\ TieInit
  /\ FontInit
  /\ ElementInit
  /\ JustifyInit
  /\ DurationInit
  /\ DynamicsInit
  /\ DrawInit

SpecTuplet == InitTuplet /\ [][NextTuplet]_vars

----------------------------------------------------------------------------
(* StaveTie (src/src/stavetie.ts; the two versions in the file differ in
   the names firstIndexes/firstIndices only) *)

\* the most noteheads of a tied note
MaxYs == 2
\* the most groups left open on the rendering context
MaxOpenGroups == 2

\* renderOptions.yShift
RenderOptionsYShift == 7

\* firstIndices and lastIndices of the TieNotes structure: either can be
\* left out; -1 refers to no notehead, 2 to the third notehead
IndexLists ==
  {[defined |-> FALSE, v |-> <<>>]}
    \cup {[defined |-> TRUE, v |-> s] :
            s \in {<<>>, <<0>>, <<1>>, <<-1>>, <<2>>,
                   <<0, 1>>, <<1, 0>>, <<0, -1>>, <<0, 2>>, <<2, 0>>}}

\* getYs() of a note with n noteheads
YsOfLength(n) == [k \in 1..n |-> 20 + 10 * k]

\* a JavaScript number: an integer or NaN
Num(v) == [nan |-> FALSE, v |-> v]
NaN == [nan |-> TRUE, v |-> 0]
isNaN(a) == a.nan

\* ys[index] + yShift: an index outside the array reads undefined, and
\* undefined + yShift is NaN
ElementPlus(ys, index, yShift) ==
  IF index \in 0..(Len(ys) - 1) THEN Num(ys[index + 1] + yShift) ELSE NaN

\* setNotes without the comparison of the lengths of the two index lists
setNotesAnyLengths(n) ==
  IF ~n.firstNote /\ ~n.lastNote THEN [err |-> "BadArguments", notes |-> n]
  ELSE [err |-> "none",
        notes |-> [set |-> TRUE, style |-> FALSE,
                   firstNote |-> n.firstNote, lastNote |-> n.lastNote,
                   firstIndices |-> IF ~n.firstIndices.defined THEN <<0>> ELSE n.firstIndices.v,
                   lastIndices |-> IF ~n.lastIndices.defined THEN <<0>> ELSE n.lastIndices.v]]

\* setNotes: the notes structure stored, or the error raised
setNotes(n) ==
  IF ~n.firstNote /\ ~n.lastNote THEN [err |-> "BadArguments", notes |-> n]
  ELSE LET firstIndices == IF ~n.firstIndices.defined THEN <<0>> ELSE n.firstIndices.v
           lastIndices == IF ~n.lastIndices.defined THEN <<0>> ELSE n.lastIndices.v
       IN IF Len(firstIndices) # Len(lastIndices)
          THEN [err |-> "BadArguments", notes |-> n]
          ELSE [err |-> "none",
                notes |-> [set |-> TRUE, style |-> FALSE,
                           firstNote |-> n.firstNote, lastNote |-> n.lastNote,
                           firstIndices |-> firstIndices, lastIndices |-> lastIndices]]

RECURSIVE renderTieLoopUnchecked(_, _, _, _)
\* renderTieLoop without the check of the two y values
renderTieLoopUnchecked(tieNotes, params, i, drawn) ==
  IF i > Len(tieNotes.firstIndices) THEN [err |-> "none", drawn |-> drawn]
  ELSE LET yShift == RenderOptionsYShift * params.direction
           firstYPx == ElementPlus(params.firstYs, tieNotes.firstIndices[i], yShift)
           lastYPx == ElementPlus(params.lastYs, tieNotes.lastIndices[i], yShift)
       IN renderTieLoopUnchecked(tieNotes, params, i + 1,
            Append(drawn, [i |-> i, firstYPx |-> firstYPx, lastYPx |-> lastYPx]))

RECURSIVE renderTieLoop(_, _, _, _)
\* the loop of renderTie over the index pairs: the curves drawn, and the
\* error that ended the loop
renderTieLoop(tieNotes, params, i, drawn) ==
  IF i > Len(tieNotes.firstIndices) THEN [err |-> "none", drawn |-> drawn]
  ELSE LET yShift == RenderOptionsYShift * params.direction
           firstYPx == ElementPlus(params.firstYs, tieNotes.firstIndices[i], yShift)
           lastYPx == ElementPlus(params.lastYs, tieNotes.lastIndices[i], yShift)
       IN IF isNaN(firstYPx) \/ isNaN(lastYPx)
          THEN [err |-> "BadArguments", drawn |-> drawn]
          ELSE renderTieLoop(tieNotes, params, i + 1,
                 Append(drawn, [i |-> i, firstYPx |-> firstYPx, lastYPx |-> lastYPx]))

\* Element.checkContext: NoContext is raised when no context is set
checkContext(c) == IF c.present THEN "none" ELSE "NoContext"

\* Element.applyStyle: the context is saved when the element has a style
applyStyle(c, style) == IF ~style \/ ~c.present THEN c ELSE [c EXCEPT !.saved = @ + 1]

\* Element.restoreStyle: the context is restored when the element has a style
restoreStyle(c, style) == IF ~style \/ ~c.present THEN c ELSE [c EXCEPT !.saved = @ - 1]

\* renderTie: the rendering context after the call, the error raised and
\* the curves drawn
renderTie(tieNotes, c, params) ==
  IF Len(params.firstYs) = 0 \/ Len(params.lastYs) = 0
  THEN [ctx |-> c, err |-> "BadArguments", drawn |-> <<>>]
  ELSE IF checkContext(c) # "none"
  THEN [ctx |-> c, err |-> checkContext(c), drawn |-> <<>>]
  ELSE LET styled == applyStyle(c, tieNotes.style)
           opened == [styled EXCEPT !.groups = @ + 1]
           r == renderTieLoop(tieNotes, params, 1, <<>>)
       IN IF r.err # "none"
          THEN [ctx |-> opened, err |-> r.err, drawn |-> r.drawn]
          ELSE [ctx |-> restoreStyle([opened EXCEPT !.groups = @ - 1], tieNotes.style),
                err |-> "none", drawn |-> r.drawn]


\* new StaveTie(notes): the constructor stores the notes with setNotes, and
\* no tie is made when setNotes raises
NewStaveTie ==
  /\ ~tie.set
  /\ \E firstNote \in BOOLEAN, lastNote \in BOOLEAN,
        firstIndices \in IndexLists, lastIndices \in IndexLists :
       LET r == setNotes([firstNote |-> firstNote, lastNote |-> lastNote,
                          firstIndices |-> firstIndices, lastIndices |-> lastIndices])
       IN /\ tie' = IF r.err = "none" THEN r.notes ELSE tie
          /\ tr' = [NoRender EXCEPT !.op = "setNotes", !.err = r.err,
                                    !.arg = [firstNote |-> firstNote, lastNote |-> lastNote,
                                             firstIndices |-> firstIndices,
                                             lastIndices |-> lastIndices],
                                    !.stored = tie]
  /\ UNCHANGED <<ctx, layoutVars, tupletVars, fontVars, elementVars, justifyVars, durationVars, dynamicsVars, drawVars>>

\* the notes structures a tie that holds notes is handed anew
SetNotesInputs ==
  {[firstNote |-> f, lastNote |-> l,
    firstIndices |-> [defined |-> fd, v |-> fi], lastIndices |-> [defined |-> ld, v |-> li]] :
     <<f, l, fd, fi, ld, li>> \in
       {<<FALSE, FALSE, FALSE, <<>>, FALSE, <<>> >>,
        <<FALSE, FALSE, TRUE, <<0>>, TRUE, <<0>> >>,
        <<TRUE, TRUE, FALSE, <<>>, FALSE, <<>> >>,
        <<TRUE, FALSE, FALSE, <<>>, TRUE, <<1>> >>,
        <<TRUE, TRUE, TRUE, <<0, 1>>, FALSE, <<>> >>,
        <<TRUE, TRUE, TRUE, <<0>>, TRUE, <<0, 1>> >>,
        <<FALSE, TRUE, TRUE, <<1, 0>>, TRUE, <<0, 1>> >>,
        <<TRUE, TRUE, TRUE, <<>>, TRUE, <<>> >>,
        <<TRUE, TRUE, TRUE, <<>>, FALSE, <<>> >>}}

\* tie.setNotes(notes) on a tie that holds notes: the style of the tie stays
SetNotes ==
  /\ tie.set
  /\ \E n \in SetNotesInputs :
       LET r == setNotes(n)
       IN /\ tie' = IF r.err = "none" THEN [r.notes EXCEPT !.style = tie.style] ELSE tie
          /\ tr' = [NoRender EXCEPT !.op = "setNotes", !.err = r.err, !.arg = n,
                                    !.stored = tie]
  /\ UNCHANGED <<ctx, layoutVars, tupletVars, fontVars, elementVars, justifyVars, durationVars, dynamicsVars, drawVars>>

\* tie.setContext(context)
SetContext ==
  /\ ~ctx.present
  /\ ctx' = [ctx EXCEPT !.present = TRUE]
  /\ tr' = [NoRender EXCEPT !.op = "setContext"]
  /\ UNCHANGED <<tie, layoutVars, tupletVars, fontVars, elementVars, justifyVars, durationVars, dynamicsVars, drawVars>>

\* tie.setStyle(style)
SetStyle ==
  /\ tie.set
  /\ ~tie.style
  /\ tie' = [tie EXCEPT !.style = TRUE]
  /\ tr' = [NoRender EXCEPT !.op = "setStyle"]
  /\ UNCHANGED <<ctx, layoutVars, tupletVars, fontVars, elementVars, justifyVars, durationVars, dynamicsVars, drawVars>>

\* tie.renderTie(params)
RenderTie ==
  /\ tie.set
  /\ ctx.groups < MaxOpenGroups
  /\ \E nFirst \in 0..MaxYs, nLast \in 0..MaxYs, direction \in {-1, 1} :
       LET params == [firstYs |-> YsOfLength(nFirst), lastYs |-> YsOfLength(nLast),
                      direction |-> direction]
           r == renderTie(tie, ctx, params)
       IN /\ ctx' = r.ctx
          /\ tr' = [NoRender EXCEPT !.op = "renderTie", !.err = r.err,
                                    !.firstYs = params.firstYs, !.lastYs = params.lastYs,
                                    !.direction = direction, !.drawn = r.drawn,
                                    !.before = ctx]
  /\ UNCHANGED <<tie, layoutVars, tupletVars, fontVars, elementVars, justifyVars, durationVars, dynamicsVars, drawVars>>

NextTie ==
  \/ NewStaveTie
  \/ SetNotes
  \/ SetContext
  \/ SetStyle
  \/ RenderTie

InitTie ==
  /\ version = 1
  /\ LayoutInit
  /\ TupletInit
  /\ TieInit
  /\ FontInit
  /\ ElementInit
  /\ JustifyInit
  /\ DurationInit
  /\ DynamicsInit
  /\ DrawInit

SpecTie == InitTie /\ [][NextTie]_vars

----------------------------------------------------------------------------
(* Font: the registry of Font objects and the metric lookups (font.ts)  *)

\* A metrics table is written as the value found at each of its leaf paths;
\* the objects of the table are the proper prefixes of the leaf paths.
\* An excerpt of CommonMetrics:
CommonMetrics ==
  (<<"fontSize">> :> 30) @@ (<<"stave", "padding">> :> 12) @@
  (<<"Accidental", "cautionary", "fontSize">> :> 28) @@
  (<<"Accidental", "rightPadding">> :> 1) @@ (<<"Bend", "fontSize">> :> 10)

\* the metrics handed to Font.load
MetricsInputs ==
  << (<<"fontSize">> :> 30) @@ (<<"stave", "padding">> :> 12),
     (<<"stave", "padding">> :> 0) @@ (<<"clef", "lineCount", "shiftY">> :> 5) >>

\* metrics: 0 for undefined, else the place of the table in MetricsInputs
MetricsOf(font) == MetricsInputs[font.metrics]

\* the keys the lookups are made with, split at the periods
Keys ==
  {<<"fontSize">>, <<"padding">>, <<"stave">>, <<"">>,
   <<"stave", "padding">>, <<"stave", "fontSize">>, <<"fontSize", "padding">>,
   <<"Bend", "fontSize">>, <<"Bend", "padding">>, <<"Stroke", "fontSize">>,
   <<"Accidental", "cautionary", "fontSize">>, <<"Accidental", "cautionary", "rightPadding">>,
   <<"Accidental", "cautionary", "padding">>, <<"clef", "lineCount", "shiftY">>,
   <<"clef", "shiftY">>}

DefaultValues == {JsUndefined, JsNumber(7)}

\* p is a proper prefix of q
IsPrefix(p, q) == Len(p) < Len(q) /\ SubSeq(q, 1, Len(p)) = p

\* currObj[keyPart]: a property of a number, or one the object lacks, is undefined
Property(m, currObj, keyPart) ==
  LET path == Append(currObj.p, keyPart) IN
  IF currObj.t # "object" THEN JsUndefined
  ELSE IF path \in DOMAIN m THEN JsNumber(m[path])
  ELSE IF \E q \in DOMAIN m : IsPrefix(path, q) THEN JsObject(path)
  ELSE JsUndefined

\* `currObj ? ... : ...` and `!currObj`
Truthy(x) == x.t = "object" \/ (x.t = "number" /\ x.v # 0)

\* getMetrics: defined(this.metrics, 'FontError', 'Missing metrics')
getMetrics(font) ==
  IF font.metrics = 0 THEN [err |-> "FontError", result |-> JsUndefined]
  ELSE [err |-> "none", result |-> JsObject(<<>>)]

RECURSIVE FontLookupLoop(_, _, _, _, _)
\* the loop of Font.lookupMetric over the parts of the key
FontLookupLoop(m, keyParts, i, currObj, defaultValue) ==
  IF i > Len(keyParts) THEN currObj
  ELSE LET value == Property(m, currObj, keyParts[i]) IN
       IF value = JsUndefined THEN defaultValue
       ELSE FontLookupLoop(m, keyParts, i + 1, value, defaultValue)

\* Font.lookupMetric
FontLookupMetric(font, keyParts, defaultValue) ==
  LET root == getMetrics(font) IN
  IF root.err # "none" THEN root
  ELSE [err |-> "none",
        result |-> FontLookupLoop(MetricsOf(font), keyParts, 1, root.result, defaultValue)]

RECURSIVE TablesWalk(_, _, _)
\* the for loop of Tables.lookupMetric: undefined as soon as a part is missing
TablesWalk(keyParts, i, currObj) ==
  IF i > Len(keyParts) THEN currObj
  ELSE LET value == Property(CommonMetrics, currObj, keyParts[i]) IN
       IF value = JsUndefined THEN JsUndefined
       ELSE TablesWalk(keyParts, i + 1, value)

\* keyParts[length - 2] = keyParts[length - 1]; keyParts.pop()
ShortenKey(keyParts) ==
  LET n == Len(keyParts)
      moved == IF n > 1 THEN [keyParts EXCEPT ![n - 1] = keyParts[n]] ELSE keyParts
  IN SubSeq(moved, 1, n - 1)

\* the while loop without the shortened keys: one walk of the whole key
TablesLoopOnce(keyParts, currObj) ==
  IF Truthy(currObj) \/ Len(keyParts) = 0 THEN currObj
  ELSE TablesWalk(keyParts, 1, JsObject(<<>>))

RECURSIVE TablesLoop(_, _)
\* the while loop of Tables.lookupMetric
TablesLoop(keyParts, currObj) ==
  IF Truthy(currObj) \/ Len(keyParts) = 0 THEN currObj
  ELSE TablesLoop(ShortenKey(keyParts), TablesWalk(keyParts, 1, JsObject(<<>>)))

\* Tables.lookupMetric
TablesLookupMetric(keyParts, defaultValue) ==
  LET currObj == TablesLoop(keyParts, JsUndefined) IN
  [err |-> "none", result |-> IF Truthy(currObj) THEN currObj ELSE defaultValue]

\* what Font.load may be handed as data and as metrics: 0 when the argument is left out
DataInputs == {0, 1, 2}
MetricsArguments == {0} \cup DOMAIN MetricsInputs

\* new Font(fontName): an object no earlier call has constructed
NewFont(fs) == [id |-> 1 + Cardinality({n \in FontNames : fs[n].id # 0}), data |-> 0, metrics |-> 0]

\* Font.load that constructs a Font on every call
FontLoadNoReuse(fs, fontName, data, metrics) ==
  LET ids == {fs[n].id : n \in FontNames}
      font == [NewFont(fs) EXCEPT !.id = 1 + (CHOOSE x \in ids : \A y \in ids : y <= x)]
      withData == IF data # 0 THEN [font EXCEPT !.data = data] ELSE font
      withMetrics == IF metrics # 0 THEN [withData EXCEPT !.metrics = metrics] ELSE withData
  IN [fonts |-> [fs EXCEPT ![fontName] = withMetrics], font |-> withMetrics.id]

\* Font.load: the Font of the registry, constructed when the name has none
FontLoad(fs, fontName, data, metrics) ==
  LET font == IF fs[fontName].id = 0 THEN NewFont(fs) ELSE fs[fontName]
      withData == IF data # 0 THEN [font EXCEPT !.data = data] ELSE font
      withMetrics == IF metrics # 0 THEN [withData EXCEPT !.metrics = metrics] ELSE withData
  IN [fonts |-> [fs EXCEPT ![fontName] = withMetrics], font |-> withMetrics.id]

\* a call of Font.load
LoadFont ==
  \E fontName \in FontNames, data \in DataInputs, metrics \in MetricsArguments :
    LET r == FontLoad(fonts, fontName, data, metrics) IN
    /\ fonts' = r.fonts
    /\ fq' = [NoFontCall EXCEPT !.op = "Font.load", !.name = fontName, !.data = data,
                                !.metrics = metrics, !.font = r.font, !.before = fonts,
                                !.returned = [fq.returned EXCEPT ![fontName] = @ \cup {r.font}]]
    /\ UNCHANGED <<web, layoutVars, tupletVars, tieVars, elementVars, justifyVars, durationVars, dynamicsVars, drawVars>>

\* a call of lookupMetric on a Font that Font.load has returned
LookupFontMetric ==
  \E fontName \in FontNames, keyParts \in Keys, defaultValue \in DefaultValues :
    /\ fonts[fontName].id # 0
    /\ LET r == FontLookupMetric(fonts[fontName], keyParts, defaultValue) IN
       fq' = [NoFontCall EXCEPT !.op = "Font.lookupMetric", !.name = fontName,
                                !.key = keyParts, !.defaultValue = defaultValue,
                                !.err = r.err, !.result = r.result,
                                !.font = fonts[fontName].id, !.before = fonts,
                                !.returned = fq.returned]
    /\ UNCHANGED <<fonts, web, layoutVars, tupletVars, tieVars, elementVars, justifyVars, durationVars, dynamicsVars, drawVars>>

\* a call of Tables.lookupMetric
LookupTablesMetric ==
  \E keyParts \in Keys, defaultValue \in DefaultValues :
    /\ LET r == TablesLookupMetric(keyParts, defaultValue) IN
       fq' = [NoFontCall EXCEPT !.op = "Tables.lookupMetric", !.key = keyParts,
                                !.defaultValue = defaultValue,
                                !.err = r.err, !.result = r.result, !.before = fonts,
                                !.returned = fq.returned]
    /\ UNCHANGED <<fonts, web, layoutVars, tupletVars, tieVars, elementVars, justifyVars, durationVars, dynamicsVars, drawVars>>

NextFont ==
  \/ LoadFont
  \/ LookupFontMetric
  \/ LookupTablesMetric

InitFont ==
  /\ version = 1
  /\ LayoutInit
  /\ TupletInit
  /\ TieInit
  /\ FontInit
  /\ ElementInit
  /\ JustifyInit
  /\ DurationInit
  /\ DynamicsInit
  /\ DrawInit

SpecFont == InitFont /\ [][NextFont]_vars

----------------------------------------------------------------------------
(* Font: loading the web fonts (font.ts) *)

\* the calls of loadWebFonts made in one behaviour
MaxWebCalls == 2

\* an excerpt of the keys of Font.WEB_FONT_FILES, in the order of Object.keys
WEB_FONT_FILES == <<"Bravura", "Petaluma">>

HasWebFontFile(fontName) == \E i \in DOMAIN WEB_FONT_FILES : WEB_FONT_FILES[i] = fontName

\* the fontNames handed to loadWebFonts; "Custom" has no entry in WEB_FONT_FILES
FontNamesInputs ==
  {[defined |-> FALSE, v |-> <<>>]}
    \cup {[defined |-> TRUE, v |-> s] :
            s \in {<<>>, <<"Bravura">>, <<"Custom">>, <<"Custom", "Petaluma">>,
                   <<"Petaluma", "Bravura">>}}

\* loadWebFont up to its await: a FontFace is constructed and starts to load
loadWebFont(call, fontName) == [call |-> call, name |-> fontName, status |-> "loading"]

\* loadWebFonts: every name that has a file starts to load; nothing is awaited,
\* so the promise of the async function is resolved when the loop is over
loadWebFonts(w, fontNames) ==
  LET names == IF fontNames.defined THEN fontNames.v ELSE WEB_FONT_FILES
      call == Len(w.calls) + 1
      started == SelectSeq(names, HasWebFontFile)
  IN [calls |-> Append(w.calls, [fontNames |-> names, promise |-> "resolved"]),
      faces |-> w.faces \o [i \in 1..Len(started) |-> loadWebFont(call, started[i])]]

\* a call of Font.loadWebFonts
LoadWebFonts ==
  /\ Len(web.calls) < MaxWebCalls
  /\ \E fontNames \in FontNamesInputs : web' = loadWebFonts(web, fontNames)
  /\ UNCHANGED <<fonts, fq, layoutVars, tupletVars, tieVars, elementVars, justifyVars, durationVars, dynamicsVars, drawVars>>

\* fontFace.load() is fulfilled: loadWebFont goes on after its await and
\* adds the FontFace to document.fonts
FontFaceLoaded ==
  /\ \E i \in DOMAIN web.faces :
       /\ web.faces[i].status = "loading"
       /\ web' = [web EXCEPT !.faces[i].status = "added"]
  /\ UNCHANGED <<fonts, fq, layoutVars, tupletVars, tieVars, elementVars, justifyVars, durationVars, dynamicsVars, drawVars>>

\* fontFace.load() is rejected: the promise of loadWebFont is rejected and
\* nothing is added
FontFaceFailed ==
  /\ \E i \in DOMAIN web.faces :
       /\ web.faces[i].status = "loading"
       /\ web' = [web EXCEPT !.faces[i].status = "failed"]
  /\ UNCHANGED <<fonts, fq, layoutVars, tupletVars, tieVars, elementVars, justifyVars, durationVars, dynamicsVars, drawVars>>

NextWebFont ==
  \/ LoadWebFonts
  \/ FontFaceLoaded
  \/ FontFaceFailed

InitWebFont ==
  /\ version = 1
  /\ LayoutInit
  /\ TupletInit
  /\ TieInit
  /\ FontInit
  /\ ElementInit
  /\ JustifyInit
  /\ DurationInit
  /\ DynamicsInit
  /\ DrawInit

SpecWebFont == InitWebFont /\ [][NextWebFont]_vars

----------------------------------------------------------------------------
(* Element: the class labels of an element (element.ts) *)

\* the class labels the calls are made with
ClassNames == {"a", "b", "c"}

\* The class attribute is written as the list of its labels, in the order of
\* the string `attrs.class` split at the spaces; the empty list is the
\* empty string, which `!this.attrs.class` takes for no class at all.
RECURSIVE indexOf(_, _, _)
\* arr.indexOf(className), counted from i on: the first place of the label, 0 for none
indexOf(arr, className, i) ==
  IF i > Len(arr) THEN 0
  ELSE IF arr[i] = className THEN i
  ELSE indexOf(arr, className, i + 1)

\* hasClass
hasClass(class, className) ==
  IF class = <<>> THEN FALSE ELSE indexOf(class, className, 1) # 0

\* registry?.onUpdate(...): the update sent when a registry holds the element
onUpdate(registered, value, oldValue) ==
  IF registered THEN <<[name |-> "class", value |-> value, oldValue |-> oldValue]>> ELSE <<>>

\* addClass: the class attribute afterwards and the registry updates sent
addClass(e, className) ==
  IF hasClass(e.class, className) THEN [class |-> e.class, updates |-> <<>>]
  ELSE [class |-> Append(e.class, className),
        updates |-> onUpdate(e.registered, className, "undefined")]

\* removeClass: arr.splice(start) removes every entry from `start` to the end
removeClass(e, className) ==
  IF ~hasClass(e.class, className) THEN [class |-> e.class, updates |-> <<>>]
  ELSE [class |-> SubSeq(e.class, 1, indexOf(e.class, className, 1) - 1),
        updates |-> onUpdate(e.registered, "undefined", className)]

\* onRegister: a registry takes the element
OnRegister ==
  /\ ~el.registered
  /\ el' = [el EXCEPT !.registered = TRUE]
  /\ eq' = [op |-> "onRegister", className |-> "", before |-> el.class, updates |-> <<>>]
  /\ UNCHANGED <<layoutVars, tupletVars, tieVars, fontVars, justifyVars, durationVars, dynamicsVars, drawVars>>

\* a call of addClass
AddClass ==
  /\ \E className \in ClassNames :
       LET r == addClass(el, className) IN
       /\ el' = [el EXCEPT !.class = r.class]
       /\ eq' = [op |-> "addClass", className |-> className, before |-> el.class,
                 updates |-> r.updates]
  /\ UNCHANGED <<layoutVars, tupletVars, tieVars, fontVars, justifyVars, durationVars, dynamicsVars, drawVars>>

\* a call of removeClass
RemoveClass ==
  /\ \E className \in ClassNames :
       LET r == removeClass(el, className) IN
       /\ el' = [el EXCEPT !.class = r.class]
       /\ eq' = [op |-> "removeClass", className |-> className, before |-> el.class,
                 updates |-> r.updates]
  /\ UNCHANGED <<layoutVars, tupletVars, tieVars, fontVars, justifyVars, durationVars, dynamicsVars, drawVars>>

NextElement ==
  \/ OnRegister
  \/ AddClass
  \/ RemoveClass

InitElement ==
  /\ version = 1
  /\ LayoutInit
  /\ TupletInit
  /\ TieInit
  /\ FontInit
  /\ ElementInit
  /\ JustifyInit
  /\ DurationInit
  /\ DynamicsInit
  /\ DrawInit

SpecElement == InitElement /\ [][NextElement]_vars

----------------------------------------------------------------------------
(* The justification engine: justify(voices, targetWidth) *)

\* The voices are written as their TimeSlices in the order of musical time:
\* the minimum width and the weight the preformatting pass has computed for
\* the slice, and whether the slice holds no event at all.
MaxSlices == 3

TimeSlice(minWidth, weight, empty) == [minWidth |-> minWidth, weight |-> weight, empty |-> empty]

\* the slices the voices are drawn from: an event has a width and a weight
\* above zero, an empty slice has neither
TimeSliceInputs ==
  {TimeSlice(m, w, FALSE) : m \in {10, 20}, w \in {1, 2}} \cup {TimeSlice(0, 0, TRUE)}

TargetWidths == {0, 20, 30, 50, 70, 100}

\* an empty TimeSlice is a no-op: the slices that are given a position
SlicesWithEvents(slices) == SelectSeq(slices, LAMBDA s : ~s.empty)

RECURSIVE PrefixSum(_, _)
\* f[1] + ... + f[n]
PrefixSum(f, n) == IF n = 0 THEN 0 ELSE f[n] + PrefixSum(f, n - 1)

\* Lengths are kept as multiples of 1 / scale, where scale is the sum of the
\* weights, so that a share surplus * weight / scale is written exactly,
\* as surplus * weight.

\* pass 2 with the whole surplus given to the last slice
allocateToLast(ts, surplus, scale) ==
  [i \in 1..Len(ts) |-> ts[i].minWidth * scale + (IF i = Len(ts) THEN surplus * scale ELSE 0)]

\* passes 1 and 2: every slice gets its minimum width and its share of the
\* surplus, which is zero when the target width is below the floor
allocate(ts, surplus, scale) ==
  [i \in 1..Len(ts) |-> ts[i].minWidth * scale + surplus * ts[i].weight]

\* positions that are the width of the slice before, not the sum of the widths before
positionsNotCumulative(widths) ==
  [i \in 1..Len(widths) |-> IF i = 1 THEN 0 ELSE widths[i - 1]]

\* cumulative left-to-right x-positions, from the origin 0
positions(widths) == [i \in 1..Len(widths) |-> PrefixSum(widths, i - 1)]

\* justify that shrinks the slices to the target width when it is below the floor
justifyShrinkToFit(slices, targetWidth) ==
  LET ts == SlicesWithEvents(slices)
      scale == PrefixSum([i \in 1..Len(ts) |-> ts[i].weight], Len(ts))
      floor == PrefixSum([i \in 1..Len(ts) |-> ts[i].minWidth], Len(ts))
      widths == allocate(ts, targetWidth - floor, scale)
  IN [op |-> "justify", slices |-> slices, targetWidth |-> targetWidth,
      overflow |-> targetWidth < floor, scale |-> scale,
      widths |-> widths, xs |-> positions(widths)]

\* justify: the report (overflow) and the widths and positions of the slices
justify(slices, targetWidth) ==
  LET ts == SlicesWithEvents(slices)
      scale == PrefixSum([i \in 1..Len(ts) |-> ts[i].weight], Len(ts))
      floor == PrefixSum([i \in 1..Len(ts) |-> ts[i].minWidth], Len(ts))
      overflow == targetWidth < floor
      surplus == IF overflow THEN 0 ELSE targetWidth - floor
      widths == allocate(ts, surplus, scale)
  IN [op |-> "justify", slices |-> slices, targetWidth |-> targetWidth,
      overflow |-> overflow, scale |-> scale,
      widths |-> widths, xs |-> positions(widths)]

\* the call of justify on the voices and the target width of the behaviour
Justify ==
  /\ jq.op = "none"
  /\ jq' = justify(jq.slices, jq.targetWidth)
  /\ UNCHANGED <<layoutVars, tupletVars, tieVars, fontVars, elementVars,
                 durationVars, dynamicsVars, drawVars>>

NextJustify == Justify

\* the voices hold at least one event; they and the target width are any
\* of the inputs
InitJustify ==
  /\ version = 1
  /\ LayoutInit
  /\ TupletInit
  /\ TieInit
  /\ FontInit
  /\ ElementInit
  /\ DurationInit
  /\ DynamicsInit
  /\ DrawInit
  /\ \E slices \in SeqUpTo(TimeSliceInputs, MaxSlices), targetWidth \in TargetWidths :
       /\ \E i \in DOMAIN slices : ~slices[i].empty
       /\ jq = [NoJustify EXCEPT !.slices = slices, !.targetWidth = targetWidth]

SpecJustify == InitJustify /\ [][NextJustify]_vars

----------------------------------------------------------------------------
(* Tables.sanitizeDuration (src/src/font.ts; the two versions of tables.ts
   in the file have the same durations, aliases and function) *)

\* the most sanitizeDuration calls of one behaviour
MaxDurationCalls == 2

\* the keys of `durations`
durations == {"1/2", "1", "2", "4", "8", "16", "32", "64", "128", "256"}

\* the aliases of durations
durationAliases == [w |-> "1", h |-> "2", q |-> "4", b |-> "256"]

\* the strings sanitizeDuration is called with: the durations, the aliases,
\* and strings that are neither
DurationInputs == durations \cup DOMAIN durationAliases \cup {"3", "x", "", "W", "qq"}

\* sanitizeDuration: the string returned, or the error raised
sanitizeDuration(duration) ==
  LET durationNumber == IF duration \in DOMAIN durationAliases
                        THEN durationAliases[duration] ELSE duration
  IN IF durationNumber \notin durations THEN [err |-> "BadArguments", result |-> ""]
     ELSE [err |-> "none", result |-> durationNumber]

\* Tables.sanitizeDuration(duration)
SanitizeDuration ==
  /\ Len(dq) < MaxDurationCalls
  /\ \E duration \in DurationInputs :
       LET r == sanitizeDuration(duration)
       IN dq' = Append(dq, [duration |-> duration, err |-> r.err, result |-> r.result,
                            again |-> FALSE])
  /\ UNCHANGED <<layoutVars, tupletVars, tieVars, fontVars, elementVars, justifyVars,
                 dynamicsVars, drawVars>>

\* Tables.sanitizeDuration on what the last call returned
SanitizeResult ==
  /\ Len(dq) > 0
  /\ Len(dq) < MaxDurationCalls
  /\ dq[Len(dq)].err = "none"
  /\ LET duration == dq[Len(dq)].result
         r == sanitizeDuration(duration)
     IN dq' = Append(dq, [duration |-> duration, err |-> r.err, result |-> r.result,
                          again |-> TRUE])
  /\ UNCHANGED <<layoutVars, tupletVars, tieVars, fontVars, elementVars, justifyVars,
                 dynamicsVars, drawVars>>

NextDuration ==
  \/ SanitizeDuration
  \/ SanitizeResult

InitDuration ==
  /\ version = 1
  /\ LayoutInit
  /\ TupletInit
  /\ TieInit
  /\ FontInit
  /\ ElementInit
  /\ JustifyInit
  /\ DurationInit
  /\ DynamicsInit
  /\ DrawInit

SpecDuration == InitDuration /\ [][NextDuration]_vars

----------------------------------------------------------------------------
(* TextDynamics (src/src/stavesection.ts) *)

\* the longest dynamics string handed to the constructor
MaxLetters == 2
\* the most preFormat calls made on one note
MaxPreFormats == 2

\* the glyph code of every dynamics letter
GLYPHS == [f |-> "E522", p |-> "E520", m |-> "E521", s |-> "E524", z |-> "E525",
           r |-> "E523"]

\* the characters of the strings handed to the constructor
DynamicsCharacters == {"p", "m", "f", "z", "r", "s", "P", "M", "F", "Z", "R", "S", "x", "3"}

\* String.toLowerCase on one character
toLowerCaseChar(c) ==
  CASE c = "P" -> "p" [] c = "M" -> "m" [] c = "F" -> "f" [] c = "Z" -> "z"
    [] c = "R" -> "r" [] c = "S" -> "s" [] c = "X" -> "x" [] OTHER -> c

toLowerCase(text) == [i \in 1..Len(text) |-> toLowerCaseChar(text[i])]

RECURSIVE preFormatLoop(_, _, _)
\* the forEach of preFormat over the letters of the sequence: the text built,
\* and the error that ended the loop
preFormatLoop(sequence, i, text) ==
  IF i > Len(sequence) THEN [err |-> "none", text |-> text]
  ELSE IF sequence[i] \notin DOMAIN GLYPHS THEN [err |-> "RuntimeError", text |-> text]
  ELSE preFormatLoop(sequence, i + 1, Append(text, GLYPHS[sequence[i]]))

\* preFormat that adds the glyphs to the text the note holds
preFormatKeepsText(note) ==
  LET r == preFormatLoop(note.sequence, 1, note.text)
  IN [note EXCEPT !.text = r.text, !.err = r.err,
                  !.preFormatted = IF r.err = "none" THEN TRUE ELSE @]

\* preFormat: the text is emptied and built from the glyphs of the letters
preFormat(note) ==
  LET r == preFormatLoop(note.sequence, 1, <<>>)
  IN [note EXCEPT !.text = r.text, !.err = r.err,
                  !.preFormatted = IF r.err = "none" THEN TRUE ELSE @]

\* new TextDynamics({text, duration})
NewTextDynamics ==
  /\ ~td.made
  /\ \E text \in SeqUpTo(DynamicsCharacters, MaxLetters) :
       td' = [NoTextDynamics EXCEPT !.made = TRUE, !.given = text,
                                    !.sequence = toLowerCase(text)]
  /\ UNCHANGED <<layoutVars, tupletVars, tieVars, fontVars, elementVars, justifyVars,
                 durationVars, drawVars>>

\* note.preFormat()
PreFormat ==
  /\ td.made
  /\ td.calls < MaxPreFormats
  /\ td' = [preFormat(td) EXCEPT !.calls = @ + 1, !.textBefore = td.text]
  /\ UNCHANGED <<layoutVars, tupletVars, tieVars, fontVars, elementVars, justifyVars,
                 durationVars, drawVars>>

NextDynamics ==
  \/ NewTextDynamics
  \/ PreFormat

InitDynamics ==
  /\ version = 1
  /\ LayoutInit
  /\ TupletInit
  /\ TieInit
  /\ FontInit
  /\ ElementInit
  /\ JustifyInit
  /\ DurationInit
  /\ DynamicsInit
  /\ DrawInit

SpecDynamics == InitDynamics /\ [][NextDynamics]_vars

----------------------------------------------------------------------------
(* Bend.draw (src/unnamed/part_003) and Ornament.draw (src/unnamed/part_004,
   both versions): the x coordinates of the curves of a bend and the
   coordinates of the glyph of an ornament that is neither delayed nor
   carries accidentals *)

\* the longest phrase of a bend
MaxPhrase == 2
\* the most draw calls made on one annotation
MaxDraws == 2

BendUP == 0
BendDOWN == 1

\* Ornament.ornamentYShift
ornamentYShift == {"fallLong"}

\* the elements of a phrase: the type, the draw width the constructor of
\* BendElement computed and the width of the text
BendElementInputs ==
  {[type |-> t, drawWidth |-> d, width |-> 8] : t \in {BendUP, BendDOWN}, d \in {9, 13}}

\* note.getModifierStartXY(...).x of the note the annotation is attached to
ModifierStartX == 100

RECURSIVE bendDrawLoop(_, _, _, _, _, _)
\* the loop of Bend.draw over the phrase: the phrase as the loop leaves it and
\* what is rendered for every element (where the curve starts, how wide it
\* is drawn, where the text is put)
bendDrawLoop(phrase, xShift, i, startX, lastBendDrawWidth, out) ==
  IF i > Len(phrase) THEN [phrase |-> phrase, out |-> out]
  ELSE LET bend == IF i = 1 THEN [phrase[i] EXCEPT !.drawWidth = @ + xShift] ELSE phrase[i]
           lastDrawnWidth == IF i = 1 /\ bend.type = BendDOWN THEN bend.drawWidth
                             ELSE bend.drawWidth + lastBendDrawWidth
                                  - (IF i = 2 THEN xShift ELSE 0)
       IN bendDrawLoop([phrase EXCEPT ![i] = bend], xShift, i + 1, startX + lastDrawnWidth,
                       bend.drawWidth,
                       Append(out, [type |-> bend.type, x |-> startX,
                                    width |-> lastDrawnWidth,
                                    textX |-> startX + lastDrawnWidth - bend.width \div 2]))

\* Bend.draw of a bend with a context and a note
bendDraw(bend) ==
  LET r == bendDrawLoop(bend.phrase, bend.xShift, 1, ModifierStartX + 3, 0, <<>>)
  IN [bend EXCEPT !.phrase = r.phrase, !.draws = Append(@, r.out)]

\* Ornament.draw of the first version of ornament.ts: the y shift grows by the
\* height for a type of ornamentYShift, before the glyph is rendered with
\* Element.renderText (which adds xShift and yShift)
ornamentDrawV1(ornament) ==
  LET glyphX == ModifierStartX
      glyphY == getYForTopText(ornament.textLine) + ornament.yShift
      yShift == IF ornament.type \in ornamentYShift THEN ornament.yShift + ornament.height
                ELSE ornament.yShift
      xPos == glyphX - ornament.width \div 2
  IN [ornament EXCEPT !.yShift = yShift,
                      !.draws = Append(@, <<[x |-> xPos + ornament.xShift,
                                             y |-> glyphY + yShift]>>)]

\* Ornament.draw of the second version: the height is added to the y of the
\* glyph
ornamentDrawV2(ornament) ==
  LET glyphX == ModifierStartX
      glyphY0 == getYForTopText(ornament.textLine) + ornament.yShift
      glyphY == IF ornament.type \in ornamentYShift THEN glyphY0 + ornament.height
                ELSE glyphY0
      center == ornament.width \div 2
      xPos == glyphX + ornament.xShift - center
  IN [ornament EXCEPT !.draws = Append(@, <<[x |-> xPos + ornament.xShift,
                                             y |-> glyphY + ornament.yShift]>>)]

\* annotation.draw()
Draw ==
  /\ dw.kind # "none"
  /\ Len(dw.draws) < MaxDraws
  /\ dw' = CASE dw.kind = "Bend" -> bendDraw(dw)
             [] dw.kind = "Ornament" /\ version = 1 -> ornamentDrawV1(dw)
             [] dw.kind = "Ornament" /\ version = 2 -> ornamentDrawV2(dw)
  /\ UNCHANGED <<layoutVars, tupletVars, tieVars, fontVars, elementVars, justifyVars,
                 durationVars, dynamicsVars>>

NextDraw == Draw

\* a formatted bend of one or more phrase elements (bend.ts is the same in
\* both builds) or a formatted ornament above the note, of either build
InitDraw ==
  /\ LayoutInit
  /\ TupletInit
  /\ TieInit
  /\ FontInit
  /\ ElementInit
  /\ JustifyInit
  /\ DurationInit
  /\ DynamicsInit
  /\ \/ /\ version = 1
        /\ \E phrase \in SeqUpTo(BendElementInputs, MaxPhrase), xShift \in {0, 5, 10},
              textLine \in {0, 1} :
             /\ Len(phrase) > 0
             /\ dw = [NoDraw EXCEPT !.kind = "Bend", !.phrase = phrase, !.xShift = xShift,
                                    !.textLine = textLine,
                                    !.formatted = [xShift |-> xShift, yShift |-> 0,
                                                   phrase |-> phrase]]
     \/ /\ version \in {1, 2}
        /\ \E type \in {"fallLong", "mordent"}, xShift \in {0, 2}, yShift \in {0, -5},
              textLine \in {0, 1} :
             dw = [NoDraw EXCEPT !.kind = "Ornament", !.type = type, !.xShift = xShift,
                                 !.yShift = yShift, !.textLine = textLine,
                                 !.height = 10, !.width = 8,
                                 !.formatted = [xShift |-> xShift, yShift |-> yShift,
                                                phrase |-> <<>>]]

SpecDraw == InitDraw /\ [][NextDraw]_vars

----------------------------------------------------------------------------
(* Properties of the format functions *)

\* the offsets a format function assigns to a modifier
Offsets(m) ==
  IF category = "ChordSymbol" THEN <<m.textLine, [j \in 1..Len(m.blocks) |-> m.blocks[j].xShift]>>
  ELSE IF category \in {"Ornament", "Bend"} THEN <<m.textLine, m.xShift>>
  ELSE <<m.xShift>>

FormatCalled == last.op = "format"
FormatReturnedTrue == last.op = "format" /\ last.ret = "true"

RECURSIVE SumTo(_, _)
\* f[1] + ... + f[n]
SumTo(f, n) == IF n = 0 THEN 0 ELSE f[n] + SumTo(f, n - 1)

RECURSIVE MaxTo(_, _)
\* the largest of 0, f[1], ..., f[n]
MaxTo(f, n) == IF n = 0 THEN 0 ELSE Max(f[n], MaxTo(f, n - 1))

\* C1: a second run of a format function on the same modifiers, with the
\* state set back to its initial values, assigns every modifier the x shift
\* and the text line the first run assigned
C1_Idempotent ==
  (FormatReturnedTrue /\ last.fresh /\ runs >= 2)
    => \A i \in 1..Len(list) : Offsets(list[i]) = Offsets(first[i])

\* C8: a format function called with an empty or undefined list returns
\* false, raises nothing and leaves the four fields of the state unchanged
C8_EmptyListNoOp ==
  (FormatCalled /\ (~listDefined \/ Len(list0) = 0))
    => (last.ret = "false" /\ last.err = "none" /\ state = pre /\ list = list0)

\* C8 witness: format functions have returned false for an undefined list
\* and for an empty one, on a state holding reserves and text lines
C8_Witness ==
  /\ FormatCalled
  /\ ~listDefined
  /\ category = "Bend"
  /\ last.ret = "false"
  /\ state = UsedState

\* C9: a format call on a list holding a modifier without a note raises an
\* error; the modifier is assigned no offset, and the state is unchanged
\* when it is the first of the list
C9_NoAnchorFailsFast ==
  (FormatCalled /\ \E i \in 1..Len(list0) : list0[i].note = "none")
    => /\ last.ret = "throw"
       /\ \A i \in 1..Len(list0) : list0[i].note = "none" => Offsets(list[i]) = Offsets(list0[i])
       /\ list0[1].note = "none" => state = pre

\* a modifier that a format call gives a text line
HasLine(m) == category # "Ornament" \/ version = 2 \/ m.position \notin {"LEFT", "RIGHT"}

\* the side of the staff whose text-line counter a formatted modifier used
SideOf(m) ==
  IF category = "ChordSymbol" THEN m.vertical
  ELSE IF category = "Bend" THEN "TOP"
  ELSE IF m.position = "ABOVE" THEN "TOP" ELSE "BOTTOM"

\* list[j] is the next modifier after list[i] stacked on the same side
NextOnSide(i, j) ==
  /\ i < j
  /\ HasLine(list[i]) /\ HasLine(list[j])
  /\ SideOf(list[i]) = SideOf(list[j])
  /\ \A k \in (i + 1)..(j - 1) : ~(HasLine(list[k]) /\ SideOf(list[k]) = SideOf(list[i]))

\* the text lines a chord symbol takes: two with a super- or subscript block
LineSpaces(symbol) ==
  IF \E j \in 1..Len(symbol.blocks) : symbol.blocks[j].mod \in {"SUPERSCRIPT", "SUBSCRIPT"} THEN 2 ELSE 1

\* the slot size the claim gives a category
SlotSize(cat) == IF cat = "Bend" THEN 1 ELSE 2

\* C2 as stated: the text lines of the modifiers stacked on one side
\* strictly increase in processing order, and two consecutive lines differ
\* by no more than the slot size of the category
C2_LinesIncreaseWithinSlot ==
  (FormatReturnedTrue /\ category \in {"ChordSymbol", "Ornament", "Bend"})
    => \A i, j \in 1..Len(list) :
         NextOnSide(i, j)
           => /\ list[j].textLine > list[i].textLine
              /\ list[j].textLine - list[i].textLine <= SlotSize(category)

\* the text lines by which a chord symbol or an ornament advances the
\* counter of its side
SlotsTaken(m) ==
  IF category = "ChordSymbol" THEN LineSpaces(m) + (IF m.vertical = "TOP" THEN 0 ELSE 1)
  ELSE IF version = 2 /\ m.type \in ornamentArticulation THEN m.height \div STAVE_LINE_DISTANCE
  ELSE 2

\* C2 amended: consecutive chord symbols on one side differ by 1 or 2 lines
\* above the staff and by 2 or 3 below it; consecutive ornaments by 2 (in
\* the second version an articulation ornament by its height / 10); bends
\* are not stacked: a bend gets the line of the bend before it, raised to
\* least string - 1 of its tab note
C2_LinesByCategory ==
  (FormatReturnedTrue /\ category \in {"ChordSymbol", "Ornament", "Bend"})
    => \A i, j \in 1..Len(list) :
         NextOnSide(i, j)
           => IF category = "Bend"
              THEN list[j].textLine =
                     (IF isTabNote(list[j].note)
                      THEN Max(list[i].textLine, list[j].leastString - 1)
                      ELSE list[i].textLine)
              ELSE list[j].textLine - list[i].textLine = SlotsTaken(list[i])

\* C2 witness: two chord symbols below the staff, the first with a
\* superscript, are three lines apart
C2_Witness ==
  /\ FormatReturnedTrue
  /\ category = "ChordSymbol"
  /\ Len(list) = 2
  /\ list[1].vertical = "BOTTOM" /\ list[2].vertical = "BOTTOM"
  /\ list[2].textLine - list[1].textLine = 3

\* the reserve the claim expects on the side of list0[i] before it is
\* placed: the reserve of the state plus width and padding of every earlier
\* modifier of that side
ReserveBefore(i) ==
  (IF list0[i].position = "RIGHT" THEN pre.rightShift ELSE pre.leftShift)
  + SumTo([k \in 1..Len(list0) |->
             IF list0[k].position = list0[i].position THEN list0[k].width + minPadding ELSE 0], i - 1)

\* width plus padding of every modifier of list0 at a position
WidthsAndPadding(position) ==
  SumTo([k \in 1..Len(list0) |->
           IF list0[k].position = position THEN list0[k].width + minPadding ELSE 0], Len(list0))

WidestCentered ==
  MaxTo([k \in 1..Len(list0) |->
           IF list0[k].position \in {"LEFT", "RIGHT"} THEN 0 ELSE list0[k].width], Len(list0))

\* second version of Ornament.format: the right and left reserve before
\* ornament i, grown by the ornaments that ended with a shift >= 0 and < 0
RightBefore2(i) ==
  pre.rightShift
  + SumTo([k \in 1..Len(list0) |->
             IF list0[k].width # 0 /\ list[k].xShift >= 0 THEN list0[k].width + minPadding ELSE 0], i - 1)

LeftBefore2(i) ==
  pre.leftShift
  + SumTo([k \in 1..Len(list0) |->
             IF list0[k].width # 0 /\ list[k].xShift < 0 THEN list0[k].width ELSE 0], i - 1)

\* the largest px + width of the parentheses of list0 at a position
WidestParenthesis(position) ==
  MaxTo([k \in 1..Len(list0) |->
           IF list0[k].position = position THEN list0[k].px + list0[k].width ELSE 0], Len(list0))

LinesBefore(i, side, extra) ==
  SumTo([k \in 1..Len(list0) |->
           IF list0[k].vertical = side THEN LineSpaces(list0[k]) + extra ELSE 0], i - 1)

\* C4 as stated: a chord symbol gets the value of the counter of its side
\* (topTextLine for TOP, textLine for BOTTOM), and the counter then grows by
\* 1, or by 2 for a symbol with a super- or subscript; the counter of the
\* other side is not changed
C4_NextSlotAdvance ==
  (FormatReturnedTrue /\ category = "ChordSymbol")
    => /\ \A i \in 1..Len(list) :
            list[i].textLine =
              IF list0[i].vertical = "TOP"
              THEN pre.topTextLine + LinesBefore(i, "TOP", 0)
              ELSE pre.textLine + LinesBefore(i, "BOTTOM", 0)
       /\ state.topTextLine = pre.topTextLine + LinesBefore(Len(list) + 1, "TOP", 0)
       /\ state.textLine = pre.textLine + LinesBefore(Len(list) + 1, "BOTTOM", 0)

\* C4 amended: a TOP symbol gets topTextLine and advances it by 1 or 2; a
\* BOTTOM symbol gets textLine + 1 and advances textLine by 2 or 3 (one
\* line more than the symbol takes); the counter of the other side is not
\* changed
C4_SlotAdvanceBySide ==
  (FormatReturnedTrue /\ category = "ChordSymbol")
    => /\ \A i \in 1..Len(list) :
            list[i].textLine =
              IF list0[i].vertical = "TOP"
              THEN pre.topTextLine + LinesBefore(i, "TOP", 0)
              ELSE pre.textLine + LinesBefore(i, "BOTTOM", 1) + 1
       /\ state.topTextLine = pre.topTextLine + LinesBefore(Len(list) + 1, "TOP", 0)
       /\ state.textLine = pre.textLine + LinesBefore(Len(list) + 1, "BOTTOM", 1)

\* C4 witness: one BOTTOM symbol with a superscript got textLine + 1 and
\* advanced textLine by 3, leaving topTextLine as it was
C4_Witness ==
  /\ FormatReturnedTrue
  /\ category = "ChordSymbol"
  /\ Len(list) = 1
  /\ list0[1].vertical = "BOTTOM"
  /\ LineSpaces(list0[1]) = 2
  /\ list[1].textLine = pre.textLine + 1
  /\ state.textLine = pre.textLine + 3
  /\ state.topTextLine = pre.topTextLine
  /\ pre = UsedState

\* block j is a subscript that immediately follows a superscript
FollowsSuperscript(blocks, j) ==
  j > 1 /\ blocks[j].mod = "SUBSCRIPT" /\ blocks[j - 1].mod = "SUPERSCRIPT"

\* the width block k adds to its symbol: a superscript and the subscript
\* after it add the larger of their two widths, every other block its own
WidthAdded(blocks, k) ==
  IF FollowsSuperscript(blocks, k) THEN 0
  ELSE IF k < Len(blocks) /\ FollowsSuperscript(blocks, k + 1)
       THEN Max(blocks[k].width, blocks[k + 1].width)
       ELSE blocks[k].width

WidthBefore(blocks, j) == SumTo([k \in 1..Len(blocks) |-> WidthAdded(blocks, k)], j - 1)

\* C5: a subscript block that immediately follows a superscript block gets
\* the x offset of the superscript, and the pair adds the larger of the two
\* widths to the symbol; every other block is placed at the running width
\* and adds its own width
C5_SubscriptOverlay ==
  (FormatReturnedTrue /\ category = "ChordSymbol")
    => \A i \in 1..Len(list) :
         LET blocks == list[i].blocks
         IN /\ \A j \in 1..Len(blocks) :
                 blocks[j].xShift =
                   IF FollowsSuperscript(blocks, j) THEN blocks[j - 1].xShift
                   ELSE WidthBefore(blocks, j)
            /\ list[i].width = WidthBefore(blocks, Len(blocks) + 1)

\* C5 witness: a subscript wider than the superscript before it lies at the
\* x offset of the superscript, and the symbol is as wide as the first
\* block plus the subscript
C5_Witness ==
  /\ FormatReturnedTrue
  /\ category = "ChordSymbol"
  /\ \E i \in 1..Len(list) :
       LET blocks == list[i].blocks
       IN /\ Len(blocks) = 3
          /\ FollowsSuperscript(blocks, 3)
          /\ blocks[3].width > blocks[2].width
          /\ blocks[3].xShift = blocks[2].xShift
          /\ blocks[3].xShift = blocks[1].width
          /\ list[i].width = blocks[1].width + blocks[3].width

----------------------------------------------------------------------------
(* Properties of Tuplet *)

SetMax(S) == CHOOSE x \in S : \A y \in S : y <= x
SetMin(S) == CHOOSE x \in S : \A y \in S : x <= y

NotesOf(t) == {tuplets[t].notes[i] : i \in 1..Len(tuplets[t].notes)}

\* the number of tuplets at a location on the tuplet stack of note n
SameSideCount(n, location) ==
  Cardinality({k \in 1..Len(notes[n].tupletStack) :
                 tuplets[notes[n].tupletStack[k]].location = location})

\* the largest minus the smallest same-side count over the notes of tuplet t
NestingDifference(t) ==
  LET counts == {SameSideCount(n, tuplets[t].location) : n \in NotesOf(t)}
  IN SetMax(counts) - SetMin(counts)

\* the tuplet stacks without the tuplets on the other side than tuplet t
SameSideStacks(t) ==
  [n \in DOMAIN notes |->
     [tupletStack |-> SelectSeq(notes[n].tupletStack,
                                LAMBDA u : tuplets[u].location = tuplets[t].location)]]

\* C6: getNestedTupletCount returns the maximum minus the minimum, over the
\* notes of the tuplet, of the number of tuplets on the note's stack at the
\* location of this tuplet; the tuplets on the other side do not change the
\* result; the result is never negative
C6_NestedCountIsSpread ==
  tq.op = "getNestedTupletCount"
    => /\ tq.result = NestingDifference(tq.t)
       /\ tq.result = getNestedTupletCount(tuplets, SameSideStacks(tq.t), tq.t)
       /\ tq.result >= 0

\* C6 witness: the count of a tuplet that has a second tuplet of its side on
\* some of its notes only is 1
C6_Witness ==
  /\ tq.op = "getNestedTupletCount"
  /\ tq.result = 1
  /\ \E u \in 1..Len(tuplets) :
       /\ u # tq.t
       /\ tuplets[u].location = tuplets[tq.t].location
       /\ NotesOf(u) # NotesOf(tq.t)
       /\ NotesOf(u) \subseteq NotesOf(tq.t)

\* the tuplet stacks were tuplet t the only tuplet
AloneStacks(t) ==
  [n \in DOMAIN notes |-> [tupletStack |-> IF n \in NotesOf(t) THEN <<t>> ELSE <<>>]]

\* the y position of tuplet t without nesting
YWithoutNesting(t) == getYPosition(tuplets, AloneStacks(t), t)

\* tuplet t lies inside tuplet u on the same side
NestedInside(t, u) ==
  /\ t # u
  /\ tuplets[t].location = tuplets[u].location
  /\ NotesOf(t) \subseteq NotesOf(u)

\* C7 as stated: a tuplet nested one level inside another tuplet on the
\* same side gets one NESTING_OFFSET, directed away from the staff, on top
\* of its y position without nesting
C7_NestedTupletOneOffset ==
  (/\ tq.op = "getYPosition"
   /\ Len(tuplets) = 2
   /\ \E u \in 1..Len(tuplets) : NestedInside(tq.t, u))
    => tq.result = YWithoutNesting(tq.t) + NESTING_OFFSET * (0 - tuplets[tq.t].location)

\* C7 amended: the y position of a tuplet is its y position without nesting
\* plus nestingDifference * NESTING_OFFSET * (-location); of two tuplets on
\* the same side the one that encloses the other over some of its notes
\* only gets one NESTING_OFFSET away from the staff, the enclosed one none
C7_OffsetByNestingDifference ==
  tq.op = "getYPosition"
    => /\ tq.result = YWithoutNesting(tq.t)
                      + NestingDifference(tq.t) * NESTING_OFFSET * (0 - tuplets[tq.t].location)
       /\ \A u \in 1..Len(tuplets) :
            Len(tuplets) = 2
              => /\ (NestedInside(u, tq.t) /\ NotesOf(u) # NotesOf(tq.t))
                      => tq.result = YWithoutNesting(tq.t)
                                     + NESTING_OFFSET * (0 - tuplets[tq.t].location)
                 /\ NestedInside(tq.t, u) => tq.result = YWithoutNesting(tq.t)

\* C7 witness: a tuplet above the staff that encloses a second one over two
\* of its three notes lies 15 higher than it would alone
C7_Witness ==
  /\ tq.op = "getYPosition"
  /\ Len(tuplets) = 2
  /\ tuplets[tq.t].location = LOCATION_TOP
  /\ tuplets[tq.t].notes = <<1, 2, 3>>
  /\ \E u \in 1..Len(tuplets) : NestedInside(u, tq.t) /\ tuplets[u].notes = <<1, 2>>
  /\ tq.result = YWithoutNesting(tq.t) - 15

----------------------------------------------------------------------------
(* Properties of StaveTie *)

\* index refers to an existing y value of ys
RefersToNotehead(ys, index) == index \in 0..(Len(ys) - 1)

\* the i-th pair of indices refers to a notehead of each note
ValidPair(i) ==
  /\ RefersToNotehead(tr.firstYs, tie.firstIndices[i])
  /\ RefersToNotehead(tr.lastYs, tie.lastIndices[i])

NoYValues == Len(tr.firstYs) = 0 \/ Len(tr.lastYs) = 0
SomeBadIndex == \E i \in 1..Len(tie.firstIndices) : ~ValidPair(i)

\* C10 as stated: renderTie raises BadArguments whenever an index refers to
\* no y value of its note and whenever a list of y values is empty, and it
\* draws curves for valid pairs of indices only
C10_BadIndexRaisesBadArguments ==
  tr.op = "renderTie"
    => /\ (NoYValues \/ SomeBadIndex) => tr.err = "BadArguments"
       /\ \A k \in 1..Len(tr.drawn) : ValidPair(tr.drawn[k].i)

\* C10 amended: renderTie raises BadArguments when a list of y values is
\* empty; otherwise it raises NoContext and draws nothing when the tie has
\* no rendering context; with a context it raises BadArguments whenever an
\* index refers to no y value of its note, after drawing the curves of the
\* pairs before the first such pair; it draws curves for valid pairs only
C10_BadIndexRaisesWithContext ==
  tr.op = "renderTie"
    => /\ NoYValues => (tr.err = "BadArguments" /\ tr.drawn = <<>>)
       /\ (~NoYValues /\ ~ctx.present) => (tr.err = "NoContext" /\ tr.drawn = <<>>)
       /\ (~NoYValues /\ ctx.present /\ SomeBadIndex)
            => /\ tr.err = "BadArguments"
               /\ ~ValidPair(Len(tr.drawn) + 1)
       /\ (~NoYValues /\ ctx.present /\ ~SomeBadIndex)
            => (tr.err = "none" /\ Len(tr.drawn) = Len(tie.firstIndices))
       /\ \A k \in 1..Len(tr.drawn) :
            /\ tr.drawn[k].i = k
            /\ ValidPair(k)
            /\ ~isNaN(tr.drawn[k].firstYPx)
            /\ ~isNaN(tr.drawn[k].lastYPx)

\* C10 witness: with a rendering context, the curve of a valid first pair
\* was drawn and the second pair, whose last index refers to no notehead,
\* raised BadArguments
C10_Witness ==
  /\ tr.op = "renderTie"
  /\ ctx.present
  /\ Len(tie.firstIndices) = 2
  /\ ValidPair(1)
  /\ RefersToNotehead(tr.firstYs, tie.firstIndices[2])
  /\ ~RefersToNotehead(tr.lastYs, tie.lastIndices[2])
  /\ tr.err = "BadArguments"
  /\ Len(tr.drawn) = 1

----------------------------------------------------------------------------
(* Properties of the metric lookups and of the font registry *)

\* every part of the key is found in the table: the path is a leaf or an object
Present(m, path) == path \in DOMAIN m \/ \E q \in DOMAIN m : IsPrefix(path, q)

\* the value the table holds at a path that is present
ValueAt(m, path) == IF path \in DOMAIN m THEN JsNumber(m[path]) ELSE JsObject(path)

\* the key and the keys left when the parts before the last are dropped from
\* the right: 'a.b.c', 'a.c', 'c'
ShortenedKeys(key) == {Append(SubSeq(key, 1, n), key[Len(key)]) : n \in 0..(Len(key) - 1)}

LookupCalled == fq.op \in {"Font.lookupMetric", "Tables.lookupMetric"}

\* some part of the key of the last lookup is absent from the metrics it was made on
SomePartAbsent ==
  CASE fq.op = "Font.lookupMetric" ->
         fonts[fq.name].metrics = 0 \/ ~Present(MetricsOf(fonts[fq.name]), fq.key)
    [] fq.op = "Tables.lookupMetric" -> ~Present(CommonMetrics, fq.key)
    [] OTHER -> FALSE

\* C11 as stated: a metric lookup never raises, and both Font.lookupMetric and
\* Tables.lookupMetric return defaultValue whenever some part of the key is
\* absent from the metrics, whatever the key and the state of the font
C11_MissingKeyGivesDefault ==
  LookupCalled => fq.err = "none" /\ (SomePartAbsent => fq.result = fq.defaultValue)

\* C11 amended: Font.lookupMetric raises FontError on a font without metrics
\* and otherwise returns defaultValue whenever some part of the key is absent;
\* Tables.lookupMetric never raises, and returns defaultValue when the key and
\* every shortened key ('a.b.c', 'a.c', 'c') have an absent part, and
\* otherwise the value of the longest of these keys that is present
C11_MissingKeyAfterFallbacks ==
  /\ fq.op = "Font.lookupMetric" =>
       IF fonts[fq.name].metrics = 0 THEN fq.err = "FontError"
       ELSE fq.err = "none" /\ (SomePartAbsent => fq.result = fq.defaultValue)
  /\ fq.op = "Tables.lookupMetric" =>
       LET present == {k \in ShortenedKeys(fq.key) : Present(CommonMetrics, k)} IN
       /\ fq.err = "none"
       /\ fq.result = IF present = {} THEN fq.defaultValue
                      ELSE ValueAt(CommonMetrics,
                                   CHOOSE k \in present : \A j \in present : Len(j) <= Len(k))

\* a lookup of a three-part key that is absent with all its shortened keys
\* has returned the default, and a font without metrics has been constructed
C11_Witness ==
  /\ fq.op = "Tables.lookupMetric"
  /\ Len(fq.key) = 3
  /\ \A k \in ShortenedKeys(fq.key) : ~Present(CommonMetrics, k)
  /\ fq.defaultValue = JsNumber(7)
  /\ fq.result = JsNumber(7)
  /\ \E n \in FontNames : fonts[n].id # 0 /\ fonts[n].metrics = 0

\* C17: Font.load reuses Font objects: all the calls made with one name have
\* returned the same Font, calls with different names have returned different
\* Fonts, and a call changes the data (the metrics) of the Font it returns
\* only when it passes data (metrics); the other Fonts are left as they were
C17_FontLoadReusesObjects ==
  /\ \A n \in FontNames : Cardinality(fq.returned[n]) <= 1
  /\ \A n, m \in FontNames : n # m => fq.returned[n] \cap fq.returned[m] = {}
  /\ fq.op = "Font.load" =>
       /\ fq.returned[fq.name] = {fq.font}
       /\ fonts[fq.name].id = fq.font
       /\ \A n \in FontNames :
            /\ fonts[n].data = IF n = fq.name /\ fq.data # 0 THEN fq.data ELSE fq.before[n].data
            /\ fonts[n].metrics = IF n = fq.name /\ fq.metrics # 0 THEN fq.metrics
                                  ELSE fq.before[n].metrics

\* a Font that has data and metrics is loaded again with other metrics and
\* without data, while the other name has a Font too
C17_Witness ==
  /\ fq.op = "Font.load"
  /\ fq.before[fq.name].data # 0
  /\ fq.before[fq.name].metrics # 0
  /\ fq.data = 0
  /\ fq.metrics \notin {0, fq.before[fq.name].metrics}
  /\ fq.font = fq.before[fq.name].id
  /\ \A n \in FontNames : fonts[n].id # 0

\* the names a call of loadWebFonts was to load: those with a file
RequestedWithFile(c) ==
  {web.calls[c].fontNames[i] : i \in DOMAIN web.calls[c].fontNames} \cap
  {WEB_FONT_FILES[i] : i \in DOMAIN WEB_FONT_FILES}

\* C18: when the promise returned by Font.loadWebFonts has resolved, every
\* requested font name that has an entry in WEB_FONT_FILES (every entry when
\* fontNames is undefined) has finished loading and is added to
\* document.fonts; no FontFace is made for a name without an entry
C18_ResolvedMeansLoaded ==
  /\ \A c \in DOMAIN web.calls :
       web.calls[c].promise = "resolved" =>
         \A n \in RequestedWithFile(c) :
           \E i \in DOMAIN web.faces :
             /\ web.faces[i].call = c
             /\ web.faces[i].name = n
             /\ web.faces[i].status = "added"
  /\ \A i \in DOMAIN web.faces : HasWebFontFile(web.faces[i].name)

----------------------------------------------------------------------------
(* Properties of the class labels of an element *)

\* the label is one of the labels of the class attribute
HasLabel(class, label) == \E i \in DOMAIN class : class[i] = label

\* C20: removeClass(c) removes exactly the label c: afterwards the element
\* does not have c, it has every other label d just when it had d before,
\* whatever the order the labels were added in; removing a label the element
\* does not have changes nothing and sends no registry update
C20_RemoveClassRemovesExactlyOne ==
  eq.op = "removeClass" =>
    /\ ~HasLabel(el.class, eq.className)
    /\ \A d \in ClassNames \ {eq.className} : HasLabel(el.class, d) <=> HasLabel(eq.before, d)
    /\ ~HasLabel(eq.before, eq.className) => el.class = eq.before /\ eq.updates = <<>>

----------------------------------------------------------------------------
(* Properties of StaveTie.setNotes *)

\* the length of an index list of the argument, a missing list counting as [0]
LengthOrOne(indices) == IF indices.defined THEN Len(indices.v) ELSE 1

\* the argument of the last setNotes names no note, or its index lists differ in length
BadTieNotes ==
  \/ ~tr.arg.firstNote /\ ~tr.arg.lastNote
  \/ LengthOrOne(tr.arg.firstIndices) # LengthOrOne(tr.arg.lastIndices)

\* C19: setNotes, called by the constructor or on a tie that holds notes,
\* raises BadArguments when neither firstNote nor lastNote is set and when the
\* two index lists have different lengths, and then the notes the tie held
\* are unchanged; otherwise it stores the notes, a missing index list as [0]
C19_SetNotesChecksArguments ==
  tr.op = "setNotes" =>
    IF BadTieNotes THEN tr.err = "BadArguments" /\ tie = tr.stored
    ELSE /\ tr.err = "none"
         /\ tie.set
         /\ tie.firstNote = tr.arg.firstNote
         /\ tie.lastNote = tr.arg.lastNote
         /\ tie.firstIndices = IF tr.arg.firstIndices.defined THEN tr.arg.firstIndices.v
                               ELSE <<0>>
         /\ tie.lastIndices = IF tr.arg.lastIndices.defined THEN tr.arg.lastIndices.v
                              ELSE <<0>>

\* a tie that holds notes is handed two notes with one index list of two
\* entries and the other missing: the call has failed and the notes are kept
C19_Witness ==
  /\ tr.op = "setNotes"
  /\ tr.stored.set
  /\ tr.arg.firstNote /\ tr.arg.lastNote
  /\ tr.arg.firstIndices.defined /\ Len(tr.arg.firstIndices.v) = 2
  /\ ~tr.arg.lastIndices.defined
  /\ tr.err = "BadArguments"
  /\ tie = tr.stored
  /\ tie.firstIndices # <<0, 1>>

----------------------------------------------------------------------------
(* Properties of the reserves of ChordSymbol.format *)

\* the chord symbols of the list that count on a side: those on a stemmable
\* note that are justified to the side or centred
OnSide(side) ==
  {i \in 1..Len(list) : isStemmableNote(list[i].note) /\ list[i].horizontal \in {side, "CENTER"}}

\* the width of a symbol on a side and the glyph width of its note: a
\* centred symbol lies with one half on either side
SideWidth(i) == IF list[i].horizontal = "CENTER" THEN list[i].width \div 2 ELSE list[i].width
SideGlyphWidth(i) ==
  IF list[i].horizontal = "CENTER" THEN list[i].glyphWidth \div 2 ELSE list[i].glyphWidth

WidestOnSide(side) == SetMax({0} \cup {SideWidth(i) : i \in OnSide(side)})
WidestGlyphOnSide(side) == SetMax({0} \cup {SideGlyphWidth(i) : i \in OnSide(side)})

\* the left width with the padding: every symbol on the left adds minPadding
\* to its own width and to the widths of the symbols before it
PaddedLeftWidth ==
  SetMax({0} \cup {SideWidth(i) + minPadding * Cardinality({k \in OnSide("LEFT") : k >= i}) :
                     i \in OnSide("LEFT")})

LeftAdded == state.leftShift - pre.leftShift
RightAdded == state.rightShift - pre.rightShift

\* the part of a width beyond the glyph and beyond the reserve held before
Beyond(width, glyphWidth, reserve) == Min(Max(width - glyphWidth, 0), Max(width - reserve, 0))

----------------------------------------------------------------------------
(* Every modifier of a formatted list is given an offset *)

\* C13: after a category format function has returned true, every modifier
\* of the list it was given is still in the list and was assigned an x shift
\* or a text line during that call, whatever the reserves and the line
\* counters the state held before
C13_NoModifierDropped ==
  FormatReturnedTrue =>
    /\ Len(list) = Len(list0)
    /\ \A i \in 1..Len(list) : list[i].assigned

\* a list of two modifiers is formatted a second time, from a state the
\* first run has left its reserves and lines in, and both are given an offset
C13_Witness ==
  /\ FormatReturnedTrue
  /\ runs = 2
  /\ ~last.fresh
  /\ pre # ZeroState
  /\ Len(list) = 2
  /\ \A i \in 1..Len(list) : list[i].assigned
  /\ category = "Parenthesis"
  /\ list[1].px = 0

----------------------------------------------------------------------------
(* Properties of justify *)

\* the slices of the last call that hold an event, their number, and the floor
Justified == SlicesWithEvents(jq.slices)
Floor == SumTo([i \in 1..Len(Justified) |-> Justified[i].minWidth], Len(Justified))
TotalWeight == SumTo([i \in 1..Len(Justified) |-> Justified[i].weight], Len(Justified))
AllocatedWidth == SumTo(jq.widths, Len(jq.widths))

\* C14: width conservation: the allocated slice widths sum to targetWidth
\* when targetWidth >= floor; when targetWidth < floor they sum to the floor,
\* overflow is flagged in the report and every slice has its minimum width
\* (widths are counted in units of 1 / jq.scale)
C14_WidthConservation ==
  jq.op = "justify" =>
    /\ Len(jq.widths) = Len(Justified)
    /\ IF jq.targetWidth >= Floor
       THEN AllocatedWidth = jq.targetWidth * jq.scale /\ ~jq.overflow
       ELSE /\ AllocatedWidth = Floor * jq.scale
            /\ jq.overflow
            /\ \A i \in 1..Len(Justified) : jq.widths[i] = Justified[i].minWidth * jq.scale

\* three slices, one of them between two empty ones or not, are justified
\* to a target below their floor
C14_Witness ==
  /\ jq.op = "justify"
  /\ Len(Justified) = 3
  /\ jq.targetWidth > 0
  /\ jq.targetWidth < Floor
  /\ jq.overflow
  /\ AllocatedWidth = Floor * jq.scale

C16_SurplusProportionalToWeight ==
  (jq.op = "justify" /\ jq.targetWidth >= Floor) =>
    /\ jq.scale = TotalWeight
    /\ \A i \in 1..Len(Justified) :
         jq.widths[i] - Justified[i].minWidth * jq.scale
           = (jq.targetWidth - Floor) * Justified[i].weight

\* the weights [1, 1, 2] with a surplus of 40 have received 10, 10 and 20
C16_Witness ==
  /\ jq.op = "justify"
  /\ Len(Justified) = 3
  /\ [i \in 1..3 |-> Justified[i].weight] = <<1, 1, 2>>
  /\ jq.targetWidth - Floor = 40
  /\ [i \in 1..3 |-> jq.widths[i] - Justified[i].minWidth * jq.scale]
       = <<10 * jq.scale, 10 * jq.scale, 20 * jq.scale>>

----------------------------------------------------------------------------
(* Properties of Stroke.format *)

\* C24: Stroke.format overlays the strokes of one note: every stroke is
\* shifted (to the left) by the left reserve held before the call plus the
\* left displaced head width of its own note, whatever the other strokes
\* are; the left reserve grows by the largest stroke width, not by the sum;
\* rightShift and both line counters are unchanged
C24_StrokesOverlay ==
  (FormatReturnedTrue /\ category = "Stroke") =>
    /\ \A i \in 1..Len(list) : list[i].xShift = 0 - (pre.leftShift + list0[i].displacedPx)
    /\ state.leftShift = pre.leftShift + SetMax({list0[i].width : i \in 1..Len(list0)})
    /\ state.rightShift = pre.rightShift
    /\ state.textLine = pre.textLine
    /\ state.topTextLine = pre.topTextLine

\* two strokes of different widths on notes with different displaced head
\* widths are formatted from a left reserve that is not zero
C24_Witness ==
  /\ FormatReturnedTrue /\ category = "Stroke"
  /\ Len(list) = 2
  /\ pre.leftShift > 0
  /\ list0[1].width # list0[2].width
  /\ list0[1].displacedPx # list0[2].displacedPx
  /\ list[1].xShift # list[2].xShift
  /\ state.leftShift = pre.leftShift + 14

----------------------------------------------------------------------------
(* Properties of the state over the format calls *)

FormatRaised == last.op = "format" /\ last.err # "none"

\* the first modifier of the list the call was given that has no note
FirstWithoutNote == SetMin({i \in 1..Len(list0) : list0[i].note = "none"})

\* C26 as stated: a format call that raises has no partial effect: the state
\* and the offsets of all the modifiers are as they were before the call
C26_RaiseHasNoEffect ==
  FormatRaised =>
    /\ state = pre
    /\ Len(list) = Len(list0)
    /\ \A i \in 1..Len(list) : Offsets(list[i]) = Offsets(list0[i])

\* C26 amended: a format call that raises leaves leftShift and rightShift as
\* they were; Stroke.format raises before it writes anything; ChordSymbol.format
\* and Bend.format raise when they reach the modifier without a note: the
\* modifiers before it have been given their offsets and the line counters
\* keep what was added for them, the modifiers from it on are untouched
C26_RaiseKeepsReserves ==
  FormatRaised =>
    /\ Len(list) = Len(list0)
    /\ state.leftShift = pre.leftShift
    /\ state.rightShift = pre.rightShift
    /\ category = "Stroke" => state = pre /\ list = Unassigned(list0)
    /\ category \in {"ChordSymbol", "Bend"} =>
         /\ \A i \in 1..Len(list) :
              IF i < FirstWithoutNote THEN list[i].assigned
              ELSE list[i] = Unassigned(list0)[i]
         /\ state.textLine >= pre.textLine
         /\ state.topTextLine >= pre.topTextLine
         /\ (category = "ChordSymbol" /\ FirstWithoutNote > 1)
              => (state.textLine > pre.textLine \/ state.topTextLine > pre.topTextLine)

\* ChordSymbol.format has raised at the second of two symbols: the first has
\* its text line and the line counter has advanced
C26_Witness ==
  /\ FormatRaised
  /\ category = "ChordSymbol"
  /\ Len(list) = 2
  /\ FirstWithoutNote = 2
  /\ list[1].assigned
  /\ state # pre
  /\ last.err = "NoAttachedNote"

\* C27: on every exit from StaveTie.renderTie, the exit by the error of the
\* index loop included, the rendering context has as many open groups and as
\* many saved states as it had before the call: each openGroup was followed
\* by a closeGroup and each applyStyle by a restoreStyle.
C27_RenderTieLeavesContextBalanced ==
  tr.op = "renderTie" =>
    /\ ctx.groups = tr.before.groups
    /\ ctx.saved = tr.before.saved

\* the exits of renderTie that happen before the style is applied and the
\* group is opened, and the exit at the end of the loop, are balanced
C27_BalancedUnlessLoopRaises ==
  (tr.op = "renderTie" /\ ~(tr.err = "BadArguments" /\ Len(tr.firstYs) > 0 /\ Len(tr.lastYs) > 0)) =>
    /\ ctx.groups = tr.before.groups
    /\ ctx.saved = tr.before.saved

\* the last call constructed a tuplet
TupletMade == tq.op = "new" /\ tq.err = "none"

\* some note of the list has no beam
SomeNoteUnbeamed(tnotes) == \E i \in 1..Len(tnotes) : ~NoteGeometry(tnotes[i]).hasBeam

\* what the constructor does with the note list, numNotes, bracketed and
\* ratioed: an empty or missing list raises BadArguments, and otherwise a
\* tuplet is made with numNotes the option or the number of notes, bracketed
\* the option or whether a note has no beam, and ratioed the option or
\* whether the two counts differ by more than one
TupletOtherDefaults ==
  /\ tq.op = "new" => (tq.err = "BadArguments" <=> (~tq.notesGiven \/ Len(tq.tnotes) = 0))
  /\ tq.op = "new" => tq.err \in {"none", "BadArguments"}
  /\ TupletMade =>
       /\ tq.made.numNotes = IF tq.options.numNotes.t = "undefined" THEN Len(tq.tnotes)
                             ELSE tq.options.numNotes.v
       /\ tq.made.bracketed = IF tq.options.bracketed.t = "undefined"
                              THEN SomeNoteUnbeamed(tq.tnotes)
                              ELSE tq.options.bracketed.v = 1
       /\ tq.made.ratioed = IF tq.options.ratioed.t = "undefined"
                            THEN Abs(tq.made.notesOccupied - tq.made.numNotes) > 1
                            ELSE tq.options.ratioed.v = 1

\* C21: the Tuplet constructor raises BadArguments for an empty or missing
\* note list, and otherwise numNotes is options.numNotes when given and the
\* number of notes otherwise, notesOccupied is options.notesOccupied when
\* given and 2 otherwise, ratioed when not given is true exactly when the two
\* counts differ by more than one, and bracketed when not given is true
\* when a note is not beamed.
C21_TupletDefaults ==
  /\ TupletOtherDefaults
  /\ TupletMade =>
       tq.made.notesOccupied = IF tq.options.notesOccupied.t = "undefined" THEN 2
                               ELSE tq.options.notesOccupied.v

\* C21 as the constructor has it: notesOccupied is options.notesOccupied
\* when that is given and not zero, and 2 otherwise
C21_TupletDefaultsZeroOccupied ==
  /\ TupletOtherDefaults
  /\ TupletMade =>
       tq.made.notesOccupied = IF tq.options.notesOccupied.t = "undefined"
                                  \/ tq.options.notesOccupied.v = 0
                               THEN 2
                               ELSE tq.options.notesOccupied.v

\* a tuplet made from a list of beamed and unbeamed notes with notesOccupied
\* given as zero and the other options left out
C21_Witness ==
  /\ TupletMade
  /\ tq.options.notesOccupied = JsNumber(0)
  /\ tq.options.ratioed.t = "undefined" /\ tq.options.bracketed.t = "undefined"
  /\ tq.options.numNotes.t = "undefined"
  /\ Len(tq.tnotes) = 2 /\ SomeNoteUnbeamed(tq.tnotes)
  /\ \E i \in 1..Len(tq.tnotes) : NoteGeometry(tq.tnotes[i]).hasBeam
  /\ tq.made.bracketed /\ ~tq.made.ratioed

\* the number based duration of an alias
AliasValue(alias) ==
  CASE alias = "w" -> "1" [] alias = "h" -> "2" [] alias = "q" -> "4" [] alias = "b" -> "256"

IsAlias(duration) == duration \in {"w", "h", "q", "b"}

\* C23: Tables.sanitizeDuration converts the aliases w, h, q, b to 1, 2, 4,
\* 256, returns an input that is not an alias as it is, and returns its own
\* result when it is applied to that result.
C23_SanitizeDuration ==
  \A i \in 1..Len(dq) :
    /\ dq[i].err = "none"
    /\ dq[i].result = IF IsAlias(dq[i].duration) THEN AliasValue(dq[i].duration)
                      ELSE dq[i].duration
    /\ dq[i].again => dq[i].result = dq[i - 1].result

\* what sanitizeDuration does: an alias is converted, a key of `durations` is
\* returned as it is, any other string raises BadArguments, and the result
\* of a call is returned by a call on it
C23_SanitizeDurationValidates ==
  \A i \in 1..Len(dq) :
    /\ dq[i].err = IF IsAlias(dq[i].duration) \/ dq[i].duration \in durations
                   THEN "none" ELSE "BadArguments"
    /\ dq[i].err = "none" =>
         dq[i].result = IF IsAlias(dq[i].duration) THEN AliasValue(dq[i].duration)
                        ELSE dq[i].duration
    /\ dq[i].again => dq[i].err = "none" /\ dq[i].result = dq[i - 1].result

\* the dynamics letters, in either case
DynamicsLetters == {"p", "m", "f", "z", "r", "s", "P", "M", "F", "Z", "R", "S"}

\* the SMuFL code point of the glyph of a dynamics letter
DynamicsGlyph(c) ==
  CASE c \in {"p", "P"} -> "E520" [] c \in {"m", "M"} -> "E521"
    [] c \in {"f", "F"} -> "E522" [] c \in {"r", "R"} -> "E523"
    [] c \in {"s", "S"} -> "E524" [] c \in {"z", "Z"} -> "E525"

OnlyDynamicsLetters(text) == \A i \in 1..Len(text) : text[i] \in DynamicsLetters

\* C22: preFormat succeeds for a dynamics string made only of the letters
\* P, M, F, Z, R, S in either case and builds a text of one glyph per letter
\* in the order of the letters; it raises a RuntimeError for a string with
\* any other character; a second preFormat call leaves the text the first
\* call built.
C22_PreFormatBuildsGlyphs ==
  td.calls > 0 =>
    /\ OnlyDynamicsLetters(td.given) =>
         /\ td.err = "none"
         /\ td.preFormatted
         /\ Len(td.text) = Len(td.given)
         /\ \A i \in 1..Len(td.given) : td.text[i] = DynamicsGlyph(td.given[i])
    /\ ~OnlyDynamicsLetters(td.given) => td.err = "RuntimeError"
    /\ td.calls > 1 => td.text = td.textBefore

\* a second preFormat call on the note made from "Sf"
C22_Witness ==
  /\ td.calls = 2
  /\ td.given = <<"S", "f">>
  /\ td.text = <<"E524", "E522">>
  /\ td.textBefore = <<"E524", "E522">>

\* the layout fields of the annotation are as formatting left them
LayoutFieldsKept ==
  /\ dw.xShift = dw.formatted.xShift
  /\ dw.yShift = dw.formatted.yShift
  /\ dw.phrase = dw.formatted.phrase

\* C28: drawing is repeatable: every draw call on a formatted Bend or
\* Ornament renders at the coordinates of the draw call before it, and
\* leaves the layout fields (the draw widths of the phrase of a Bend, the
\* xShift and yShift of an Ornament) as they were.
C28_DrawIsRepeatable ==
  /\ LayoutFieldsKept
  /\ \A i \in 2..Len(dw.draws) : dw.draws[i] = dw.draws[i - 1]

\* drawing is repeatable for a bend without x shift, for an ornament of the
\* second version of ornament.ts, and for an ornament of the first version
\* whose type is not one of ornamentYShift
C28_RepeatableWithoutShift ==
  (\/ dw.kind = "Bend" /\ dw.formatted.xShift = 0
   \/ dw.kind = "Ornament" /\ version = 2
   \/ dw.kind = "Ornament" /\ dw.type \notin ornamentYShift) =>
    /\ LayoutFieldsKept
    /\ \A i \in 2..Len(dw.draws) : dw.draws[i] = dw.draws[i - 1]

====
